---- MODULE Spec2Model ----
(***************************************************************************)
(* TOPP-RA reachability solver (toppra/TOPP.py, toppra/constraints.py).    *)
(*                                                                         *)
(* Numbers.  Squared velocities x, interval end-points and constraint      *)
(* constants are integers counted in units of SUPERTINY (1e-16), so that   *)
(* the default buffer eps = 1e-14 of solve_controllable_sets is 100.       *)
(* Magnitudes that do not fit a 32-bit integer in that unit (1.0, the      *)
(* default interval width 1e-4, INFTY = 1e8) are saturated to large        *)
(* values that keep their order: TINY < I0Default high < ONE < INFTY.      *)
(* Grid points s are integers counted in units of 1e-8 (the absolute       *)
(* tolerance of numpy.allclose); controls u are counted in (x unit)/(s     *)
(* unit).  The inputs are drawn on the lattice of multiples of eps, on     *)
(* which every LP below has an integral optimum.                           *)
(*                                                                         *)
(* qpOASES is an external library.  A call of init/hotstart is modelled    *)
(* by its contract: it answers SUCCESSFUL_RETURN only for a feasible       *)
(* problem (hotstart: only on an instance that was initialised), and then  *)
(* getPrimalSolution/getObjVal give an exact optimum; any call may instead *)
(* answer an error status.                                                 *)
(***************************************************************************)
EXTENDS Integers, Sequences, FiniteSets, TLC

\* ------------------------------------------------------------------------
\* Program constants
\* ------------------------------------------------------------------------
SUPERTINY == 1
TINY == 100000000
INFTY == 1000000000
\* 1.0 in model units (saturated); _K and _L are initialised to -1.
ONE == 500000000
\* default keyword argument eps=1e-14 of solve_controllable_sets
EPS == 100
\* self.nop = 3
nop == 3
\* self.nWSR_cnst = 1000
nWSR_cnst == 1000
SUCCESSFUL_RETURN == 1
\* keys of qpOASESReturnValueDict
qpOASESReturnValueDict == {1, 61, 37}
\* numpy.allclose(a, b): |a - b| <= atol + rtol * |b|, atol = 1e-8 (one grid
\* unit), rtol = 1e-5 = 1 / RTOL_INV
ATOL == 1
RTOL_INV == 100000
\* self.I0 = self.IN = np.r_[0, 1e-4]
I0Default == <<0, 200000000>>

\* ------------------------------------------------------------------------
\* Bounds of the model
\* ------------------------------------------------------------------------
\* largest number of grid segments N
MaxN == 2
\* squared velocities range over EPS * (0 .. MaxXK)
MaxXK == 4

Max(p, q) == IF p >= q THEN p ELSE q
Min(p, q) == IF p <= q THEN p ELSE q
Abs(p) == IF p >= 0 THEN p ELSE -p
\* floor and ceiling of p / q for q > 0
FloorDiv(p, q) == p \div q
CeilDiv(p, q) == -((-p) \div q)

RECURSIVE SumTo(_, _)
\* sum(f[j] for j in range(k))
SumTo(f, k) == IF k = 0 THEN 0 ELSE SumTo(f, k - 1) + f[k]

\* ------------------------------------------------------------------------
\* numpy arrays: a shape and the entries, indexed from 0
\* ------------------------------------------------------------------------
Arr1(n, F(_)) == [shape |-> <<n>>, v |-> [i \in 0..(n - 1) |-> F(i)]]
Arr2(n, m, F(_, _)) ==
    [shape |-> <<n, m>>,
     v |-> [i \in 0..(n - 1) |-> [j \in 0..(m - 1) |-> F(i, j)]]]
Arr3(n, m, p, F(_, _, _)) ==
    [shape |-> <<n, m, p>>,
     v |-> [i \in 0..(n - 1) |-> [j \in 0..(m - 1) |->
               [k \in 0..(p - 1) |-> F(i, j, k)]]]]
\* np.empty((n, 0)), np.empty((n, 0, p))
Empty2(n) == Arr2(n, 0, LAMBDA i, j : 0)
Empty3(n, p) == Arr3(n, 0, p, LAMBDA i, j, k : 0)
\* Reading stage i of an array whose first dimension is 1 or N+1: numpy
\* broadcasts a first dimension of 1 over all stages.
Stage(arr, i) == IF arr.shape[1] = 1 THEN arr.v[0] ELSE arr.v[i]

\* ------------------------------------------------------------------------
\* PathConstraint (constraints.py)
\* ------------------------------------------------------------------------
\* An optional keyword argument is <<>> (None) or <<value>>.
None == << >>
Some(val) == <<val>>

\* the classification with its two non-canonical kinds exchanged
KindOf_exchanged(nm_, niq_) ==
    IF nm_ # 0 THEN "Canonical"
    ELSE IF niq_ = 0 THEN "TypeII"
    ELSE "TypeI"
\* The kind of a constraint with the given widths.
KindOf(nm_, niq_) ==
    IF nm_ # 0 THEN "Canonical"
    ELSE IF niq_ = 0 THEN "TypeI"
    ELSE "TypeII"

\* PathConstraint.__init__
PathConstraint(a, b, c, abar, bbar, cbar, D, l_, h_, lG, G, hG, ss_) ==
    LET N_ == ss_.shape[1] - 1
        a1 == IF a = None THEN Empty2(N_ + 1) ELSE a[1]
        b1 == IF a = None THEN Empty2(N_ + 1) ELSE b[1]
        c1 == IF a = None THEN Empty2(N_ + 1) ELSE c[1]
        abar1 == IF D = None THEN Empty2(N_ + 1) ELSE abar[1]
        bbar1 == IF D = None THEN Empty2(N_ + 1) ELSE bbar[1]
        cbar1 == IF D = None THEN Empty2(N_ + 1) ELSE cbar[1]
        D1 == IF D = None THEN Empty3(N_ + 1, 0) ELSE D[1]
        nv_ == D1.shape[3]
        l1 == IF l_ = None THEN Empty2(N_ + 1) ELSE l_[1]
        h1 == IF l_ = None THEN Empty2(N_ + 1) ELSE h_[1]
        lG1 == IF lG = None THEN Empty2(N_ + 1) ELSE lG[1]
        G1 == IF lG = None THEN Empty3(N_ + 1, nv_) ELSE G[1]
        hG1 == IF lG = None THEN Empty2(N_ + 1) ELSE hG[1]
    IN  [N |-> N_, ss |-> ss_,
         a |-> a1, b |-> b1, c |-> c1,
         abar |-> abar1, bbar |-> bbar1, cbar |-> cbar1, D |-> D1,
         l |-> l1, h |-> h1, lG |-> lG1, G |-> G1, hG |-> hG1,
         nm |-> a1.shape[2], neq |-> abar1.shape[2], nv |-> nv_,
         niq |-> lG1.shape[2],
         kind |-> KindOf(a1.shape[2], lG1.shape[2])]

\* the interpolation taking the step that follows stage i+1
InterpStep_next(ss_, i) ==
    IF i + 2 <= ss_.shape[1] - 1 THEN ss_.v[i + 2] - ss_.v[i + 1]
    ELSE ss_.v[i + 1] - ss_.v[i]
\* Ds[i] of interpolate_constraint: ss[1:] - ss[:N]
InterpStep(ss_, i) == ss_.v[i + 1] - ss_.v[i]

\* X_intp for a two-dimensional block X whose right half copies stage i+1
\* (b, c, bbar, cbar, l, h, lG, hG); row N holds X[N] twice.
InterpCopy(X, N_) ==
    LET w == X.shape[2]
    IN  Arr2(N_ + 1, 2 * w,
             LAMBDA i, j : IF j < w THEN X.v[i][j]
                           ELSE IF i < N_ THEN X.v[i + 1][j - w]
                           ELSE X.v[N_][j - w])
\* the interpolation adding the 2 * Ds * Y term at the last stage as well
InterpShift_lastToo(X, Y, ss_, N_) ==
    LET w == X.shape[2]
    IN  Arr2(N_ + 1, 2 * w,
             LAMBDA i, j : IF j < w THEN X.v[i][j]
                           ELSE IF i < N_
                           THEN X.v[i + 1][j - w]
                                + 2 * (Y.v[i + 1][j - w] * InterpStep(ss_, i))
                           ELSE X.v[N_][j - w] + 2 * Y.v[N_][j - w])
\* a_intp, abar_intp: the right half is X[i+1] + 2 * Ds[i] * Y[i+1]
InterpShift(X, Y, ss_, N_) ==
    LET w == X.shape[2]
    IN  Arr2(N_ + 1, 2 * w,
             LAMBDA i, j : IF j < w THEN X.v[i][j]
                           ELSE IF i < N_
                           THEN X.v[i + 1][j - w]
                                + 2 * (Y.v[i + 1][j - w] * InterpStep(ss_, i))
                           ELSE X.v[N_][j - w])
\* D_intp (off == 0, from np.zeros) and G_intp (from np.empty: the entries
\* outside the two diagonal blocks are never written, off is what the
\* memory held)
InterpBlocks(X, N_, off) ==
    LET r == X.shape[2]
        w == X.shape[3]
    IN  Arr3(N_ + 1, 2 * r, 2 * w,
             LAMBDA i, j, k :
                IF j < r /\ k < w THEN X.v[i][j][k]
                ELSE IF j >= r /\ k >= w
                THEN IF i < N_ THEN X.v[i + 1][j - r][k - w]
                     ELSE X.v[N_][j - r][k - w]
                ELSE off)

\* interpolate_constraint(pc); junk is the content of the memory np.empty
\* handed out for G_intp
interpolate_constraint(pcon, junk) ==
    LET N_ == pcon.N
    IN  PathConstraint(Some(InterpShift(pcon.a, pcon.b, pcon.ss, N_)),
                       Some(InterpCopy(pcon.b, N_)),
                       Some(InterpCopy(pcon.c, N_)),
                       Some(InterpShift(pcon.abar, pcon.bbar, pcon.ss, N_)),
                       Some(InterpCopy(pcon.bbar, N_)),
                       Some(InterpCopy(pcon.cbar, N_)),
                       Some(InterpBlocks(pcon.D, N_, 0)),
                       Some(InterpCopy(pcon.l, N_)),
                       Some(InterpCopy(pcon.h, N_)),
                       Some(InterpCopy(pcon.lG, N_)),
                       Some(InterpBlocks(pcon.G, N_, junk)),
                       Some(InterpCopy(pcon.hG, N_)),
                       pcon.ss)

\* ------------------------------------------------------------------------
\* qpOASESPPSolver: dimensions and matrix assembly
\* ------------------------------------------------------------------------
\* sum([c.<field> for c in constraint_set]) over the first k constraints
SumField(cs, field, k) == SumTo([j \in 1..Len(cs) |-> cs[j][field]], k)
nm_(cs) == SumField(cs, "nm", Len(cs))
niq_(cs) == SumField(cs, "niq", Len(cs))
neq_(cs) == SumField(cs, "neq", Len(cs))
nv_(cs) == SumField(cs, "nv", Len(cs))
nV_(cs) == nv_(cs) + 2
nC_(cs) == nop + nm_(cs) + neq_(cs) + niq_(cs)

\* Value of the loop counter `row` when the canonical loop reaches the k-th
\* constraint of the list (constraints with nm = 0 are filtered out and
\* would add 0).
RowCan(cs, k) == nop + SumField(cs, "nm", k - 1)
\* the equality rows started at nop, over the canonical rows
RowEq_overCanonical(cs, k) == nop + SumField(cs, "neq", k - 1)
\* `row` when the equality loop reaches constraint k.
RowEq(cs, k) == nop + nm_(cs) + SumField(cs, "neq", k - 1)
\* `col` when the equality loop reaches constraint k: it has advanced by
\* c.nv for every earlier constraint that passed the filter c.neq != 0.
ColEq(cs, k) ==
    2 + SumTo([j \in 1..Len(cs) |->
                  IF cs[j].neq # 0 THEN cs[j].nv ELSE 0], k - 1)
\* `row` when the inequality loop reaches constraint k.
RowIq(cs, k) == nop + nm_(cs) + neq_(cs) + SumField(cs, "niq", k - 1)
\* `col` when the inequality loop reaches constraint k: it has advanced by
\* c.nv for every earlier constraint that passed the filter c.niq != 0.
ColIq(cs, k) ==
    2 + SumTo([j \in 1..Len(cs) |->
                  IF cs[j].niq # 0 THEN cs[j].nv ELSE 0], k - 1)
\* `row` (a column index) when the bounds loop reaches constraint k.
ColBd(cs, k) == 2 + SumField(cs, "nv", k - 1)

\* The constraints whose block of `width` rows starting at Row(cs, k)
\* contains index r.
Owners(cs, Row(_, _), field, r) ==
    {k \in 1..Len(cs) :
        cs[k][field] # 0 /\ Row(cs, k) <= r /\ r < Row(cs, k) + cs[k][field]}

\* Entry A[i, r, col] after _fill_matrices.
FillA(cs, i, r, col) ==
    LET can == Owners(cs, RowCan, "nm", r)
        eq == Owners(cs, RowEq, "neq", r)
        iq == Owners(cs, RowIq, "niq", r)
    IN  IF can # {} THEN
            LET k == CHOOSE k \in can : TRUE
                j == r - RowCan(cs, k)
            IN  IF col = 0 THEN Stage(cs[k].a, i)[j]
                ELSE IF col = 1 THEN Stage(cs[k].b, i)[j]
                ELSE 0
        ELSE IF eq # {} THEN
            LET k == CHOOSE k \in eq : TRUE
                j == r - RowEq(cs, k)
                c0 == ColEq(cs, k)
            IN  IF col = 0 THEN Stage(cs[k].abar, i)[j]
                ELSE IF col = 1 THEN Stage(cs[k].bbar, i)[j]
                ELSE IF c0 <= col /\ col < c0 + cs[k].nv
                     THEN -Stage(cs[k].D, i)[j][col - c0]
                ELSE 0
        ELSE IF iq # {} THEN
            LET k == CHOOSE k \in iq : TRUE
                j == r - RowIq(cs, k)
                c0 == ColIq(cs, k)
            IN  IF c0 <= col /\ col < c0 + cs[k].nv
                THEN Stage(cs[k].G, i)[j][col - c0]
                ELSE 0
        ELSE 0

\* Entry lA[i, r] after _fill_matrices.
FilllA(cs, i, r) ==
    LET can == Owners(cs, RowCan, "nm", r)
        eq == Owners(cs, RowEq, "neq", r)
        iq == Owners(cs, RowIq, "niq", r)
    IN  IF can # {} THEN -INFTY
        ELSE IF eq # {} THEN
            LET k == CHOOSE k \in eq : TRUE
            IN  -Stage(cs[k].cbar, i)[r - RowEq(cs, k)]
        ELSE IF iq # {} THEN
            LET k == CHOOSE k \in iq : TRUE
            IN  Stage(cs[k].lG, i)[r - RowIq(cs, k)]
        ELSE 0

\* Entry hA[i, r] after _fill_matrices.
FillhA(cs, i, r) ==
    LET can == Owners(cs, RowCan, "nm", r)
        eq == Owners(cs, RowEq, "neq", r)
        iq == Owners(cs, RowIq, "niq", r)
    IN  IF can # {} THEN
            LET k == CHOOSE k \in can : TRUE
            IN  -Stage(cs[k].c, i)[r - RowCan(cs, k)]
        ELSE IF eq # {} THEN
            LET k == CHOOSE k \in eq : TRUE
            IN  -Stage(cs[k].cbar, i)[r - RowEq(cs, k)]
        ELSE IF iq # {} THEN
            LET k == CHOOSE k \in iq : TRUE
            IN  Stage(cs[k].hG, i)[r - RowIq(cs, k)]
        ELSE 0

\* Entries l[i, col] and h[i, col] after _fill_matrices.
Filll(cs, i, col) ==
    LET bd == Owners(cs, ColBd, "nv", col)
    IN  IF col = 0 THEN -INFTY
        ELSE IF col = 1 THEN 0
        ELSE LET k == CHOOSE k \in bd : TRUE
             IN  Stage(cs[k].l, i)[col - ColBd(cs, k)]
Fillh(cs, i, col) ==
    LET bd == Owners(cs, ColBd, "nv", col)
    IN  IF col = 0 THEN INFTY
        ELSE IF col = 1 THEN INFTY
        ELSE LET k == CHOOSE k \in bd : TRUE
             IN  Stage(cs[k].h, i)[col - ColBd(cs, k)]

\* a comparison that accepts every pair of grids
AllClose_any(x, y) == "close"
\* np.allclose(x, y) on two 1-d arrays: "error" when the shapes do not
\* broadcast, else whether every |x - y| <= atol + rtol * |y|.
AllClose(x, y) ==
    LET n == x.shape[1]
        m == y.shape[1]
        len == Max(n, m)
    IN  IF n # m /\ n # 1 /\ m # 1 THEN "error"
        ELSE IF \A i \in 0..(len - 1) :
                    RTOL_INV * Abs(Stage(x, i) - Stage(y, i))
                        <= RTOL_INV * ATOL + Abs(Stage(y, i))
             THEN "close"
        ELSE "far"

\* Whether every array of constraint c can be assigned into the slices of
\* the (N_+1)-stage matrices (first dimension N_+1, or 1 and broadcast).
Assignable(c, N_) == c.N = N_ \/ c.N = 0

\* Outcome of qpOASESPPSolver.__init__ on the list cs: "ok", or the
\* exception raised.
ConstructOutcome(cs) ==
    LET ss0 == cs[1].ss
        N0 == cs[1].N
    IN  IF \E k \in 1..Len(cs) : AllClose(cs[k].ss, ss0) = "error"
            THEN "ValueError"
        ELSE IF \E k \in 1..Len(cs) : AllClose(cs[k].ss, ss0) = "far"
            THEN "AssertionError"
        ELSE IF \E k \in 1..Len(cs) : ~Assignable(cs[k], N0)
            THEN "ValueError"
        ELSE "ok"

\* ------------------------------------------------------------------------
\* State
\* ------------------------------------------------------------------------
VARIABLES
    pc,              \* position of the caller / of the running pass
    constraint_set,  \* self.constraint_set (list of PathConstraint)
    ss, N,           \* self.ss, self.N
    I0, I_N,         \* self.I0, self.IN (IN is a reserved word)
    _K, _L,          \* self._K, self._L : stage -> (low, high)
    A, lA, hA,       \* self.A, self.lA, self.hA
    l, h,            \* self.l, self.h
    H, g,            \* self.H, self.g
    solver_up,       \* state of the qpOASES instance self.solver_up
    solver_down,     \* state of the qpOASES instance self.solver_down
    frame,           \* locals of the running pass (i, init, xs, us, ...)
    primlog,         \* the primitives invoked by the running call, in order
    ret,             \* outcome of the last finished call
    ncalls           \* number of calls made on the solver so far

solverVars == <<constraint_set, ss, N>>
ivalVars == <<I0, I_N>>
setVars == <<_K, _L>>
fixedMat == <<l, h>>
opMat == <<A, lA, hA, H, g>>
qpVars == <<solver_up, solver_down>>
vars == <<pc, constraint_set, ss, N, I0, I_N, _K, _L, A, lA, hA, l, h, H, g,
          solver_up, solver_down, frame, primlog, ret, ncalls>>

\* a pair (low, high) indexed 0, 1 as in the source
Pair(lo, hi) == [j \in 0..1 |-> IF j = 0 THEN lo ELSE hi]
NoFrame == [op |-> "none"]
NoRet == [op |-> "none", kind |-> "none"]

\* self.Ds = self.ss[1:] - self.ss[:-1]
Ds == [i \in 0..(N - 1) |-> ss.v[i + 1] - ss.v[i]]
nm == nm_(constraint_set)
niq == niq_(constraint_set)
neq == neq_(constraint_set)
nv == nv_(constraint_set)
nV == nV_(constraint_set)
nC == nC_(constraint_set)

\* ------------------------------------------------------------------------
\* qpOASESPPSolver.__init__
\* ------------------------------------------------------------------------
\* State before the constructor has run on the list cs.
Unbuilt(cs) ==
    /\ pc = "new"
    /\ constraint_set = cs
    /\ ss = Arr1(0, LAMBDA i : 0)
    /\ N = 0
    /\ I0 = << >> /\ I_N = << >>
    /\ _K = << >> /\ _L = << >>
    /\ A = << >> /\ lA = << >> /\ hA = << >>
    /\ l = << >> /\ h = << >>
    /\ H = << >> /\ g = << >>
    /\ solver_up = "none" /\ solver_down = "none"
    /\ frame = NoFrame
    /\ primlog = << >>
    /\ ret = NoRet
    /\ ncalls = 0

\* __init__ raised: no solver object exists.
ConstructFails ==
    /\ pc = "new"
    /\ ConstructOutcome(constraint_set) # "ok"
    /\ pc' = "noobject"
    /\ ret' = [op |-> "__init__", kind |-> "raise",
               exc |-> ConstructOutcome(constraint_set)]
    /\ UNCHANGED <<solverVars, ivalVars, setVars, fixedMat, opMat, qpVars,
                   frame, primlog, ncalls>>

\* __init__ returned: I0, IN, ss, N, _K, _L, the matrices of _init_matrices
\* and _fill_matrices, and the two solvers of _init_qpoaes_solvers.
Construct ==
    /\ pc = "new"
    /\ ConstructOutcome(constraint_set) = "ok"
    /\ LET cs == constraint_set
           N0 == cs[1].N
       IN  /\ ss' = cs[1].ss
           /\ N' = N0
           /\ I0' = Pair(I0Default[1], I0Default[2])
           /\ I_N' = Pair(I0Default[1], I0Default[2])
           /\ _K' = [i \in 0..N0 |-> Pair(-ONE, -ONE)]
           /\ _L' = [i \in 0..N0 |-> Pair(-ONE, -ONE)]
           /\ A' = [i \in 0..N0 |-> [r \in 0..(nC_(cs) - 1) |->
                       [col \in 0..(nV_(cs) - 1) |-> FillA(cs, i, r, col)]]]
           /\ lA' = [i \in 0..N0 |-> [r \in 0..(nC_(cs) - 1) |->
                        FilllA(cs, i, r)]]
           /\ hA' = [i \in 0..N0 |-> [r \in 0..(nC_(cs) - 1) |->
                        FillhA(cs, i, r)]]
           /\ l' = [i \in 0..N0 |-> [col \in 0..(nV_(cs) - 1) |->
                       Filll(cs, i, col)]]
           /\ h' = [i \in 0..N0 |-> [col \in 0..(nV_(cs) - 1) |->
                       Fillh(cs, i, col)]]
           /\ H' = [p \in 0..(nV_(cs) - 1) |->
                       [q \in 0..(nV_(cs) - 1) |-> 0]]
           /\ g' = [p \in 0..(nV_(cs) - 1) |-> 0]
    /\ solver_up' = "fresh"
    /\ solver_down' = "fresh"
    /\ pc' = "idle"
    /\ ret' = [op |-> "__init__", kind |-> "return"]
    /\ UNCHANGED <<constraint_set, frame, primlog, ncalls>>

\* ------------------------------------------------------------------------
\* qpOASES (SQProblem): min 1/2 y'Hy + g'y  s.t. lA <= A y <= hA, l <= y <= h
\* ------------------------------------------------------------------------
INIT_FAILED_INFEASIBILITY == 37
HOTSTART_STOPPED_INFEASIBILITY == 61
\* a status that is not a key of qpOASESReturnValueDict: the working-set
\* budget nWSR was exhausted, or hotstart was called on an instance that
\* holds no initialised problem
MAX_NWSR_REACHED == 64

\* a float that is not a number (a None stored into a float array)
NaN == -(2 * INFTY)

SetMax(S) == CHOOSE p \in S : \A q \in S : p >= q
SetMin(S) == CHOOSE p \in S : \A q \in S : p <= q

\* The problem of stage i as handed to init/hotstart.
StageQP(A1, lA1, hA1, H1, g1, i) ==
    [A |-> A1[i], lA |-> lA1[i], hA |-> hA1[i], l |-> l[i], h |-> h[i],
     H |-> H1, g |-> g1]

\* lattice of squared velocities and slack values
XDom == {EPS * k : k \in 0..MaxXK}

\* A m.A[r, 1:] . (x, v)
RowRest(m, r, x, v) ==
    m.A[r][1] * x
    + SumTo([j \in 1..(Cardinality(DOMAIN m.g) - 2) |->
                m.A[r][j + 1] * v[j - 1]], Cardinality(DOMAIN m.g) - 2)

\* The interval of the u that row r allows next to (x, v); a row without u
\* allows every u or none.
RowU(m, r, x, v) ==
    LET k == m.A[r][0]
        rest == RowRest(m, r, x, v)
    IN  IF k > 0 THEN <<CeilDiv(m.lA[r] - rest, k), FloorDiv(m.hA[r] - rest, k)>>
        ELSE IF k < 0
        THEN <<CeilDiv(rest - m.hA[r], -k), FloorDiv(rest - m.lA[r], -k)>>
        ELSE IF m.lA[r] <= rest /\ rest <= m.hA[r] THEN <<-INFTY, INFTY>>
        ELSE <<INFTY, -INFTY>>

\* The feasible set: every (x, v) within its bounds, with the interval
\* [ulo, uhi] of the u that satisfy all rows and the bounds on u.
QPPoints(m) ==
    LET nvv == Cardinality(DOMAIN m.g) - 2
        rows == DOMAIN m.lA
        xs == {x \in XDom : m.l[1] <= x /\ x <= m.h[1]}
        vs == {v \in [0..(nvv - 1) -> XDom] :
                  \A j \in 0..(nvv - 1) :
                     m.l[j + 2] <= v[j] /\ v[j] <= m.h[j + 2]}
        pts == {LET iv == [r \in rows |-> RowU(m, r, xv[1], xv[2])]
                IN  [x |-> xv[1], v |-> xv[2],
                     ulo |-> SetMax({m.l[0]} \cup {iv[r][1] : r \in rows}),
                     uhi |-> SetMin({m.h[0]} \cup {iv[r][2] : r \in rows})]
                : xv \in xs \X vs}
    IN  {p \in pts : p.ulo <= p.uhi}

\* The best u of a feasible point for the linear cost g[0] * u.
BestU(m, p) == IF m.g[0] < 0 THEN p.uhi ELSE p.ulo

\* Twice the objective value at the point p with its best u.
Obj2(m, p) ==
    LET nvv == Cardinality(DOMAIN m.g) - 2
    IN  2 * (m.g[0] * BestU(m, p) + m.g[1] * p.x
             + SumTo([j \in 1..nvv |-> m.g[j + 1] * p.v[j - 1]], nvv))
        + SumTo([j \in 1..nvv |->
                    SumTo([k \in 1..nvv |->
                              m.H[j + 1][k + 1] * p.v[j - 1] * p.v[k - 1]],
                          nvv)], nvv)

\* What the solver can find on the feasible set pts of problem m: whether
\* the problem is feasible, and an optimum.
QPSolve(m, pts) ==
    LET scored == {[p |-> p, obj2 |-> Obj2(m, p)] : p \in pts}
        least == SetMin({s.obj2 : s \in scored})
    IN  IF pts = {} THEN [feasible |-> FALSE]
        ELSE LET best == (CHOOSE s \in scored : s.obj2 = least).p
             IN  [feasible |-> TRUE, u |-> BestU(m, best), x |-> best.x,
                  v |-> best.v, obj |-> least \div 2]

\* The statuses a call can answer.  cold: init (TRUE) or hotstart (FALSE);
\* inst: state of the instance; known: the problem data are numbers.
QPStatuses(cold, inst, known, feasible) ==
    IF ~cold /\ inst # "ready" THEN {MAX_NWSR_REACHED}
    ELSE IF ~known THEN
        {SUCCESSFUL_RETURN, MAX_NWSR_REACHED,
         IF cold THEN INIT_FAILED_INFEASIBILITY
         ELSE HOTSTART_STOPPED_INFEASIBILITY}
    ELSE IF feasible THEN {SUCCESSFUL_RETURN, MAX_NWSR_REACHED}
    ELSE {IF cold THEN INIT_FAILED_INFEASIBILITY
          ELSE HOTSTART_STOPPED_INFEASIBILITY, MAX_NWSR_REACHED}

\* State of an instance after a call: init leaves an initialised problem
\* only when it succeeds; hotstart keeps what there was.
QPAfter(cold, inst, res) ==
    IF cold THEN (IF res = SUCCESSFUL_RETURN THEN "ready" ELSE "failed")
    ELSE inst

\* ------------------------------------------------------------------------
\* reset_operational_rows
\* ------------------------------------------------------------------------
ResetA(A0) ==
    [i \in DOMAIN A0 |-> [r \in DOMAIN A0[i] |->
        IF r < nop THEN [col \in DOMAIN A0[i][r] |-> 0] ELSE A0[i][r]]]
\* every row zeroed
ResetRows_all(lA0) ==
    [i \in DOMAIN lA0 |-> [r \in DOMAIN lA0[i] |-> 0]]
ResetRows(lA0) ==
    [i \in DOMAIN lA0 |-> [r \in DOMAIN lA0[i] |->
        IF r < nop THEN 0 ELSE lA0[i][r]]]
ZeroH == [p \in 0..(nV - 1) |-> [q \in 0..(nV - 1) |-> 0]]
Zerog == [p \in 0..(nV - 1) |-> 0]
\* The matrices after reset_operational_rows.
reset_operational_rows ==
    [A |-> ResetA(A), lA |-> ResetRows(lA), hA |-> ResetRows(hA),
     H |-> ZeroH, g |-> Zerog]

\* ------------------------------------------------------------------------
\* The primitives.  X_qp writes the operational rows and the objective and
\* gives the two problems handed to the solvers; X_ret is what the
\* primitive returns for the statuses the two calls answered.
\* ------------------------------------------------------------------------
\* (None, None)
NoneNone == [kind |-> "none"]
Raises(exc) == [kind |-> "raise", exc |-> exc]

\* Operational row 0 and the two objectives, then both solves.
TwoSolves(mat, i, a0, xmin, xmax, g_up, g_down) ==
    LET A1 == [mat.A EXCEPT ![i][0][1] = 1, ![i][0][0] = a0]
        lA1 == [mat.lA EXCEPT ![i][0] = xmin]
        hA1 == [mat.hA EXCEPT ![i][0] = xmax]
        pts == QPPoints(StageQP(A1, lA1, hA1, mat.H, g_up, i))
    IN  [A |-> A1, lA |-> lA1, hA |-> hA1, H |-> mat.H, g |-> g_down,
         up |-> QPSolve(StageQP(A1, lA1, hA1, mat.H, g_up, i), pts),
         down |-> QPSolve(StageQP(A1, lA1, hA1, mat.H, g_down, i), pts)]

\* one_step: row 0 is xmin <= 2 ds u + x <= xmax; max x, min x.
one_step_qp(mat, i, xmin, xmax) ==
    TwoSolves(mat, i, 2 * (ss.v[i + 1] - ss.v[i]), xmin, xmax,
              [mat.g EXCEPT ![1] = -1], [mat.g EXCEPT ![1] = 1])
one_step_ret(q, res_up, res_down) ==
    IF res_up # SUCCESSFUL_RETURN \/ res_down # SUCCESSFUL_RETURN
    THEN NoneNone
    ELSE [kind |-> "ok", lo |-> q.down.x, hi |-> q.up.x]

\* reach: row 0 is xmin <= x <= xmax; max and min of x + 2 ds u.
reach_qp(mat, i, xmin, xmax) ==
    TwoSolves(mat, i, 0, xmin, xmax,
              [mat.g EXCEPT ![0] = -2 * (ss.v[i + 1] - ss.v[i]), ![1] = -1],
              [mat.g EXCEPT ![0] = 2 * (ss.v[i + 1] - ss.v[i]), ![1] = 1])
reach_ret(q, res_up, res_down) ==
    IF res_up # SUCCESSFUL_RETURN \/ res_down # SUCCESSFUL_RETURN
    THEN NoneNone
    ELSE [kind |-> "ok", lo |-> q.down.obj, hi |-> -q.up.obj]

\* proj_x_admissible: row 0 is xmin <= x <= xmax; max x, min x.
proj_x_admissible_qp(mat, i, xmin, xmax) ==
    TwoSolves(mat, i, 0, xmin, xmax,
              [mat.g EXCEPT ![0] = 0, ![1] = -1],
              [mat.g EXCEPT ![0] = 0, ![1] = 1])
proj_x_admissible_ret(q, res_up, res_down) ==
    IF res_up # SUCCESSFUL_RETURN \/ res_down # SUCCESSFUL_RETURN
    THEN \* the warning looks res_up up in qpOASESReturnValueDict
         IF res_up \in qpOASESReturnValueDict THEN NoneNone
         ELSE Raises("KeyError")
    ELSE IF ~(q.down.x <= q.up.x + SUPERTINY) THEN Raises("AssertionError")
    ELSE [kind |-> "ok", lo |-> q.down.x,
          hi |-> IF q.down.x > q.up.x THEN q.down.x ELSE q.up.x]

\* greedy_step: row 0 pins x, row 1 is xmin <= x + 2 ds u <= xmax; max u.
\* (A[:, 0] and A[:, 1] are set by solve_topp.)
greedy_step_qp(mat, i, x, xmin, xmax, reg) ==
    LET lA1 == [mat.lA EXCEPT ![i][0] = x, ![i][1] = xmin]
        hA1 == [mat.hA EXCEPT ![i][0] = x, ![i][1] = xmax]
        g1 == [mat.g EXCEPT ![0] = -1]
        H1 == IF nv # 0
              THEN [p \in 0..(nV - 1) |-> [q \in 0..(nV - 1) |->
                       IF p >= 2 /\ p = q THEN mat.H[p][q] + reg
                       ELSE mat.H[p][q]]]
              ELSE mat.H
    IN  [A |-> mat.A, lA |-> lA1, hA |-> hA1, H |-> H1, g |-> g1,
         known |-> x # NaN,
         up |-> IF x = NaN THEN [feasible |-> FALSE]
                ELSE QPSolve(StageQP(mat.A, lA1, hA1, H1, g1, i),
                             QPPoints(StageQP(mat.A, lA1, hA1, H1, g1, i)))]
\* The u the solver hands back: the optimum, or any number when the
\* problem data held a NaN.
greedy_step_ret(q, i, x, res_up) ==
    IF res_up # SUCCESSFUL_RETURN THEN NoneNone
    ELSE IF x = NaN THEN Raises("AssertionError")
    ELSE LET u_greedy == q.up.u
             x_greedy == x + 2 * Ds[i] * u_greedy
         IN  IF ~(x_greedy + SUPERTINY >= 0) THEN Raises("AssertionError")
             ELSE [kind |-> "ok", u |-> u_greedy,
                   x |-> IF x_greedy < 0 THEN x_greedy + SUPERTINY
                         ELSE x_greedy]

\* What a primitive hands to init / hotstart at stage i, q being the
\* matrices as the primitive has set them: the Hessian, the operational
\* entries of lA[i] and hA[i], and the budgets of working-set
\* recalculations of the two instances (greedy_step has no call of
\* solver_down), with the reg it was given.
Handed(q, i, budget_up, budget_down, reg) ==
    [H |-> q.H,
     lA |-> [r \in 0..(nop - 1) |-> q.lA[i][r]],
     hA |-> [r \in 0..(nop - 1) |-> q.hA[i][r]],
     nWSR_up |-> budget_up, nWSR_down |-> budget_down, reg |-> reg]
\* every primitive calling both instances
SolversOf_both(prim) == {"up", "down"}
\* The instances a primitive calls init or hotstart on: greedy_step solves
\* with solver_up only, the others with solver_up and then solver_down.
SolversOf(prim) ==
    IF prim = "greedy_step" THEN {"up"} ELSE {"up", "down"}
\* One entry of primlog.
PrimCall(prim, i, cold, res_up, res_down, out, handed) ==
    [prim |-> prim, i |-> i, init |-> cold, res_up |-> res_up,
     res_down |-> res_down, out |-> out.kind, value |-> out,
     H |-> handed.H, lA |-> handed.lA, hA |-> handed.hA,
     nWSR_up |-> handed.nWSR_up, nWSR_down |-> handed.nWSR_down,
     reg |-> handed.reg, reset |-> FALSE, solvers |-> SolversOf(prim)]
\* The entry of a primitive that the pass invokes right after its call of
\* reset_operational_rows.
AfterReset(entry) == [entry EXCEPT !.reset = TRUE]

\* the solver leaving the budget argument as it was
NWSRAfter_kept(budget, res) == budget
\* recalculations a solve that ends within its budget is taken to perform
Performed == 3
\* The budget argument after a call: qpOASES writes the number of
\* recalculations it performed into it, the whole budget when it stopped
\* with MAX_NWSR_REACHED.
NWSRAfter(budget, res) ==
    IF res = MAX_NWSR_REACHED THEN budget ELSE Min(budget, Performed)
\* np.ones((N + 1, 1), dtype=int) * nWSR_cnst
FreshBudgets == [i \in 0..N |-> nWSR_cnst]

\* ------------------------------------------------------------------------
\* Constraint lists handed to the constructor
\* ------------------------------------------------------------------------
\* The grid with n segments: 0, 1, 3, 4, 6, ... (Ds alternates 1, 2).
GridOf(n) == Arr1(n + 1, LAMBDA i : (3 * i) \div 2)
\* The same grid with its last point moved by d.
GridMoved(n, d) ==
    Arr1(n + 1, LAMBDA i : IF i = n THEN (3 * i) \div 2 + d
                           ELSE (3 * i) \div 2)

\* A coefficient that tells its block (tag), stage, row and column.
Coef(tag, i, j, k) == 1000 * tag + 100 * i + 10 * j + k

\* Constraints with every combination of blocks, on grid ss_ :
\* canonical rows only
AsmCanonical(t, ss_, w) ==
    LET n == ss_.shape[1]
    IN  PathConstraint(Some(Arr2(n, w, LAMBDA i, j : Coef(t + 1, i, j, 0))),
                       Some(Arr2(n, w, LAMBDA i, j : Coef(t + 2, i, j, 0))),
                       Some(Arr2(n, w, LAMBDA i, j : Coef(t + 3, i, j, 0))),
                       None, None, None, None, None, None,
                       None, None, None, ss_)
\* equality rows with slack (Type I): e equalities on w slack variables
AsmTypeI(t, ss_, e, w) ==
    LET n == ss_.shape[1]
    IN  PathConstraint(None, None, None,
                       Some(Arr2(n, e, LAMBDA i, j : Coef(t + 1, i, j, 0))),
                       Some(Arr2(n, e, LAMBDA i, j : Coef(t + 2, i, j, 0))),
                       Some(Arr2(n, e, LAMBDA i, j : Coef(t + 3, i, j, 0))),
                       Some(Arr3(n, e, w,
                                 LAMBDA i, j, k : Coef(t + 4, i, j, k))),
                       Some(Arr2(n, w, LAMBDA i, j : -Coef(t + 5, i, j, 0))),
                       Some(Arr2(n, w, LAMBDA i, j : Coef(t + 5, i, j, 0))),
                       None, None, None, ss_)
\* e equality rows and q inequality rows on w slack variables (Type II);
\* e = 0 gives a constraint with slack but no equality rows
AsmTypeII(t, ss_, e, w, q) ==
    LET n == ss_.shape[1]
    IN  PathConstraint(None, None, None,
                       Some(Arr2(n, e, LAMBDA i, j : Coef(t + 1, i, j, 0))),
                       Some(Arr2(n, e, LAMBDA i, j : Coef(t + 2, i, j, 0))),
                       Some(Arr2(n, e, LAMBDA i, j : Coef(t + 3, i, j, 0))),
                       Some(Arr3(n, e, w,
                                 LAMBDA i, j, k : Coef(t + 4, i, j, k))),
                       Some(Arr2(n, w, LAMBDA i, j : -Coef(t + 5, i, j, 0))),
                       Some(Arr2(n, w, LAMBDA i, j : Coef(t + 5, i, j, 0))),
                       Some(Arr2(n, q, LAMBDA i, j : -Coef(t + 6, i, j, 0))),
                       Some(Arr3(n, q, w,
                                 LAMBDA i, j, k : Coef(t + 7, i, j, k))),
                       Some(Arr2(n, q, LAMBDA i, j : Coef(t + 6, i, j, 0))),
                       ss_)

\* The constraints the assembly is checked on; t separates the coefficients
\* of the constraints of one list.
AsmConstraints(t, ss_) ==
    { AsmCanonical(t, ss_, 1), AsmCanonical(t, ss_, 2),
      AsmTypeI(t, ss_, 1, 1), AsmTypeI(t, ss_, 2, 1),
      AsmTypeII(t, ss_, 1, 1, 1), AsmTypeII(t, ss_, 1, 2, 2),
      AsmTypeII(t, ss_, 0, 1, 1) }

\* Grids of the later constraints of a list: the solver's grid, one moved
\* by one or two units, one with a point less, one of a single point.
AsmGrids(n) ==
    { GridOf(n), GridMoved(n, 1), GridMoved(n, 2), GridMoved(n, -1),
      GridOf(n - 1), GridOf(0) }

\* Lists of one to three constraints on MaxN segments, and lists of two on
\* one segment whose second constraint has a grid of a single point.
AsmLists ==
    LET first == AsmConstraints(10, GridOf(MaxN))
        second == UNION {AsmConstraints(20, s) : s \in AsmGrids(MaxN)}
        third == AsmConstraints(30, GridOf(MaxN))
    IN  {<<c1>> : c1 \in first}
        \cup {<<c1, c2>> : c1 \in first, c2 \in second}
        \cup {<<c1, c2>> : c1 \in AsmConstraints(10, GridOf(1)),
                           c2 \in AsmConstraints(20, GridOf(0))}
        \cup {<<c1, c2, c3>> : c1 \in {AsmCanonical(10, GridOf(MaxN), 1),
                                        AsmTypeI(10, GridOf(MaxN), 1, 1)},
                               c2 \in AsmConstraints(20, GridOf(MaxN)),
                               c3 \in third}

\* ------------------------------------------------------------------------
\* Calls on a constructed solver
\* ------------------------------------------------------------------------
\* largest number of calls made on one solver object
MaxCalls == 2

Mat == [A |-> A, lA |-> lA, hA |-> hA, H |-> H, g |-> g]
SetMat(m) ==
    /\ A' = m.A /\ lA' = m.lA /\ hA' = m.hA /\ H' = m.H /\ g' = m.g

\* The call `op` of the user returns `value` / raises `exc`.
Returns(op, value) ==
    /\ pc' = "idle"
    /\ frame' = NoFrame
    /\ ret' = [op |-> op, kind |-> "return", value |-> value]
RaisesOut(op, exc) ==
    /\ pc' = "idle"
    /\ frame' = NoFrame
    /\ ret' = [op |-> op, kind |-> "raise", exc |-> exc]

\* Arguments of the setters: np.r_[arg] as a tuple of floats (scalars,
\* pairs, a pair in the wrong order, negative end-points, three entries,
\* no entry).
SetterArgs ==
    { <<0>>, <<2 * EPS>>, <<EPS, 2 * EPS>>, <<EPS, 0>>, <<-EPS>>,
      <<-EPS, EPS>>, <<0, EPS, 2 * EPS>>, << >> }
\* the arguments the setters accept, given before a pass is run
PassSetterArgs == { <<0>>, <<EPS, 2 * EPS>> }

\* the setter without the test of the lower end-point
SetInterval_anySign(arg) ==
    IF Len(arg) = 0 THEN Raises("IndexError")
    ELSE IF Len(arg) > 2 THEN Raises("ValueError")
    ELSE LET I == IF Len(arg) = 1 THEN Pair(arg[1], arg[1])
                  ELSE Pair(arg[1], arg[2])
         IN  IF ~(I[1] >= I[0]) THEN Raises("AssertionError")
             ELSE [kind |-> "ok", I |-> I]
\* the setter keeping the first two of more than two entries
SetInterval_truncates(arg) ==
    IF Len(arg) = 0 THEN Raises("IndexError")
    ELSE LET I == IF Len(arg) = 1 THEN Pair(arg[1], arg[1])
                  ELSE Pair(arg[1], arg[2])
         IN  IF ~(I[1] >= I[0]) THEN Raises("AssertionError")
             ELSE IF ~(I[0] >= 0) THEN Raises("AssertionError")
             ELSE [kind |-> "ok", I |-> I]
\* What set_start_interval / set_goal_interval do with np.r_[arg]:
\* the interval stored, or the exception raised (an array without entries
\* has no element [1]).
SetInterval(arg) ==
    IF Len(arg) = 0 THEN Raises("IndexError")
    ELSE IF Len(arg) > 2 THEN Raises("ValueError")
    ELSE LET I == IF Len(arg) = 1 THEN Pair(arg[1], arg[1])
                  ELSE Pair(arg[1], arg[2])
         IN  IF ~(I[1] >= I[0]) THEN Raises("AssertionError")
             ELSE IF ~(I[0] >= 0) THEN Raises("AssertionError")
             ELSE [kind |-> "ok", I |-> I]

\* Outcome of a setter call, with the argument it was given.
SetterEnds(op, arg, r) ==
    /\ pc' = "idle"
    /\ frame' = NoFrame
    /\ ret' = IF r.kind = "ok"
              THEN [op |-> op, kind |-> "return", value |-> "None",
                    arg |-> arg]
              ELSE [op |-> op, kind |-> "raise", exc |-> r.exc, arg |-> arg]

set_start_interval(arg) ==
    /\ pc = "idle" /\ ncalls < MaxCalls
    /\ ncalls' = ncalls + 1
    /\ primlog' = << >>
    /\ LET r == SetInterval(arg)
       IN  /\ I0' = IF r.kind = "ok" THEN r.I ELSE I0
           /\ SetterEnds("set_start_interval", arg, r)
    /\ UNCHANGED <<solverVars, I_N, setVars, fixedMat, opMat, qpVars>>

set_goal_interval(arg) ==
    /\ pc = "idle" /\ ncalls < MaxCalls
    /\ ncalls' = ncalls + 1
    /\ primlog' = << >>
    /\ LET r == SetInterval(arg)
       IN  /\ I_N' = IF r.kind = "ok" THEN r.I ELSE I_N
           /\ SetterEnds("set_goal_interval", arg, r)
    /\ UNCHANGED <<solverVars, I0, setVars, fixedMat, opMat, qpVars>>

\* ---- solve_controllable_sets ------------------------------------------
\* the upper end with the buffer added instead of subtracted
\* the upper end-point stored without the buffer
KHigh_noBuffer(xmax_i, eps) == xmax_i
KHigh_plus(xmax_i, eps) == xmax_i + eps
\* K[i, 1] and K[i, 0] stored for a one-step set (xmin_i, xmax_i)
KHigh(xmax_i, eps) == xmax_i - eps
KLow(xmin_i) == Max(xmin_i, 0)

\* solve_controllable_sets ends with `value` (a bool) or raises; when
\* solve_topp made the call, solve_topp goes on or the exception leaves it.
BackwardEnds(kind, value) ==
    IF frame.caller = "user"
    THEN IF kind = "return" THEN Returns("solve_controllable_sets", value)
         ELSE RaisesOut("solve_controllable_sets", value)
    ELSE IF kind = "return"
         THEN /\ pc' = "T_check"
              /\ frame' = [op |-> "solve_topp", controllable |-> value,
                           reg |-> frame.reg]
              /\ ret' = ret
         ELSE RaisesOut("solve_topp", value)

\* Entry of solve_controllable_sets: reset_operational_rows().
BackwardBegin(caller, reg) ==
    /\ SetMat(reset_operational_rows)
    /\ pc' = "K_proj"
    /\ frame' = [op |-> "solve_controllable_sets", caller |-> caller,
                 reg |-> reg, eps |-> EPS, i |-> N, init |-> TRUE,
                 nWSR_up |-> FreshBudgets, nWSR_down |-> FreshBudgets]
    /\ primlog' = << >>
    /\ ret' = NoRet

solve_controllable_sets ==
    /\ pc = "idle" /\ ncalls < MaxCalls
    /\ ncalls' = ncalls + 1
    /\ BackwardBegin("user", 0)
    /\ UNCHANGED <<solverVars, ivalVars, setVars, fixedMat, qpVars>>

\* the array is cleared before the row is stored
StoreRow_cleared(arr, i, row) ==
    [k \in DOMAIN arr |-> IF k = i THEN row ELSE Pair(-ONE, -ONE)]
\* self._K[i] = ..., self._L[i] = ...: one row of the array is assigned
StoreRow(arr, i, row) == [arr EXCEPT ![i] = row]

\* proj_x_admissible(N, IN[0], IN[1], init=True)
BackwardProject ==
    /\ pc = "K_proj"
    /\ LET q == proj_x_admissible_qp(Mat, N, I_N[0], I_N[1])
       IN  \E res_up \in QPStatuses(TRUE, solver_up, TRUE, q.up.feasible),
              res_down \in QPStatuses(TRUE, solver_down, TRUE,
                                      q.down.feasible) :
             LET out == proj_x_admissible_ret(q, res_up, res_down)
             IN  /\ SetMat(q)
                 /\ solver_up' = QPAfter(TRUE, solver_up, res_up)
                 /\ solver_down' = QPAfter(TRUE, solver_down, res_down)
                 /\ primlog' = Append(primlog, AfterReset(
                        PrimCall("proj_x_admissible", N, TRUE, res_up,
                                 res_down, out,
                                 Handed(q, N, nWSR_cnst, nWSR_cnst, 0))))
                 /\ CASE out.kind = "raise" ->
                           /\ BackwardEnds("raise", out.exc)
                           /\ _K' = _K
                      [] out.kind = "none" ->
                           /\ BackwardEnds("return", FALSE)
                           /\ _K' = _K
                      [] out.kind = "ok" ->
                           /\ _K' = StoreRow(_K, N, Pair(out.lo, out.hi))
                           /\ IF N = 0 THEN BackwardEnds("return", TRUE)
                              ELSE /\ pc' = "K_step"
                                   /\ frame' = [frame EXCEPT !.i = N - 1,
                                                             !.init = TRUE]
                                   /\ ret' = ret
    /\ UNCHANGED <<solverVars, ivalVars, _L, fixedMat, ncalls>>

\* one iteration of `for i in range(self.N - 1, -1, -1)`
BackwardOneStep ==
    /\ pc = "K_step"
    /\ LET i == frame.i
           q == one_step_qp(Mat, i, _K[i + 1][0], _K[i + 1][1])
       IN  \E res_up \in QPStatuses(frame.init, solver_up, TRUE,
                                    q.up.feasible),
              res_down \in QPStatuses(frame.init, solver_down, TRUE,
                                      q.down.feasible) :
             LET out == one_step_ret(q, res_up, res_down)
             IN  /\ SetMat(q)
                 /\ solver_up' = QPAfter(frame.init, solver_up, res_up)
                 /\ solver_down' = QPAfter(frame.init, solver_down, res_down)
                 /\ primlog' = Append(primlog,
                        PrimCall("one_step", i, frame.init, res_up,
                                 res_down, out,
                                 Handed(q, i, frame.nWSR_up[i],
                                        frame.nWSR_down[i], 0)))
                 /\ IF out.kind = "none"
                    THEN /\ BackwardEnds("return", FALSE)
                         /\ _K' = _K
                    ELSE /\ _K' = StoreRow(_K, i, Pair(KLow(out.lo),
                                           KHigh(out.hi, frame.eps)))
                         /\ IF i = 0 THEN BackwardEnds("return", TRUE)
                            ELSE /\ pc' = "K_step"
                                 /\ frame' =
                                       [frame EXCEPT
                                          !.i = i - 1, !.init = FALSE,
                                          !.nWSR_up[i] =
                                             NWSRAfter(@, res_up),
                                          !.nWSR_down[i] =
                                             NWSRAfter(@, res_down)]
                                 /\ ret' = ret
    /\ UNCHANGED <<solverVars, ivalVars, _L, fixedMat, ncalls>>

\* ---- solve_reachable_sets ----------------------------------------------
ForwardEnds(kind, value) ==
    IF kind = "return" THEN Returns("solve_reachable_sets", value)
    ELSE RaisesOut("solve_reachable_sets", value)

solve_reachable_sets ==
    /\ pc = "idle" /\ ncalls < MaxCalls
    /\ ncalls' = ncalls + 1
    /\ SetMat(reset_operational_rows)
    /\ pc' = "L_proj0"
    /\ frame' = [op |-> "solve_reachable_sets", i |-> 0, init |-> TRUE]
    /\ primlog' = << >>
    /\ ret' = NoRet
    /\ UNCHANGED <<solverVars, ivalVars, setVars, fixedMat, qpVars>>

\* proj_x_admissible(0, I0[0], I0[1], init=True)
ForwardProjectStart ==
    /\ pc = "L_proj0"
    /\ LET q == proj_x_admissible_qp(Mat, 0, I0[0], I0[1])
       IN  \E res_up \in QPStatuses(TRUE, solver_up, TRUE, q.up.feasible),
              res_down \in QPStatuses(TRUE, solver_down, TRUE,
                                      q.down.feasible) :
             LET out == proj_x_admissible_ret(q, res_up, res_down)
             IN  /\ SetMat(q)
                 /\ solver_up' = QPAfter(TRUE, solver_up, res_up)
                 /\ solver_down' = QPAfter(TRUE, solver_down, res_down)
                 /\ primlog' = Append(primlog, AfterReset(
                        PrimCall("proj_x_admissible", 0, TRUE, res_up,
                                 res_down, out,
                                 Handed(q, 0, nWSR_cnst, nWSR_cnst, 0))))
                 /\ CASE out.kind = "raise" ->
                           /\ ForwardEnds("raise", out.exc)
                           /\ _L' = _L
                      [] out.kind = "none" ->
                           /\ ForwardEnds("return", FALSE)
                           /\ _L' = _L
                      [] out.kind = "ok" ->
                           /\ _L' = StoreRow(_L, 0, Pair(out.lo, out.hi))
                           /\ IF N = 0 THEN ForwardEnds("return", TRUE)
                              ELSE /\ pc' = "L_reach"
                                   /\ frame' = [frame EXCEPT !.i = 0,
                                                             !.init = TRUE]
                                   /\ ret' = ret
    /\ UNCHANGED <<solverVars, ivalVars, _K, fixedMat, ncalls>>

\* cold starts at the first stage only
ForwardInit_firstOnly(i) == i < 1
\* init = (True if i <= 1 else False)
ForwardInit(i) == i <= 1

\* reach(i, L[i, 0], L[i, 1], init = (i <= 1))
ForwardReach ==
    /\ pc = "L_reach"
    /\ LET i == frame.i
           init == ForwardInit(i)
           q == reach_qp(Mat, i, _L[i][0], _L[i][1])
       IN  \E res_up \in QPStatuses(init, solver_up, TRUE, q.up.feasible),
              res_down \in QPStatuses(init, solver_down, TRUE,
                                      q.down.feasible) :
             LET out == reach_ret(q, res_up, res_down)
             IN  /\ SetMat(q)
                 /\ solver_up' = QPAfter(init, solver_up, res_up)
                 /\ solver_down' = QPAfter(init, solver_down, res_down)
                 /\ primlog' = Append(primlog,
                        PrimCall("reach", i, init, res_up, res_down, out,
                                 Handed(q, i, nWSR_cnst, nWSR_cnst, 0)))
                 /\ IF out.kind = "none"
                    THEN ForwardEnds("return", FALSE)
                    ELSE /\ pc' = "L_proj"
                         /\ frame' = [op |-> "solve_reachable_sets",
                                      i |-> i, init |-> init,
                                      xmin_nx |-> out.lo,
                                      xmax_nx |-> out.hi]
                         /\ ret' = ret
    /\ UNCHANGED <<solverVars, ivalVars, setVars, fixedMat, ncalls>>

\* proj_x_admissible(i + 1, xmin_nx, xmax_nx, init = (i <= 1))
ForwardProject ==
    /\ pc = "L_proj"
    /\ LET i == frame.i
           init == frame.init
           q == proj_x_admissible_qp(Mat, i + 1, frame.xmin_nx,
                                     frame.xmax_nx)
       IN  \E res_up \in QPStatuses(init, solver_up, TRUE, q.up.feasible),
              res_down \in QPStatuses(init, solver_down, TRUE,
                                      q.down.feasible) :
             LET out == proj_x_admissible_ret(q, res_up, res_down)
             IN  /\ SetMat(q)
                 /\ solver_up' = QPAfter(init, solver_up, res_up)
                 /\ solver_down' = QPAfter(init, solver_down, res_down)
                 /\ primlog' = Append(primlog,
                        PrimCall("proj_x_admissible", i + 1, init, res_up,
                                 res_down, out,
                                 Handed(q, i + 1, nWSR_cnst, nWSR_cnst, 0)))
                 /\ CASE out.kind = "raise" ->
                           /\ ForwardEnds("raise", out.exc)
                           /\ _L' = _L
                      [] out.kind = "none" ->
                           /\ ForwardEnds("return", FALSE)
                           /\ _L' = _L
                      [] out.kind = "ok" ->
                           /\ _L' = StoreRow(_L, i + 1, Pair(out.lo, out.hi))
                           /\ IF i + 1 = N THEN ForwardEnds("return", TRUE)
                              ELSE /\ pc' = "L_reach"
                                   /\ frame' = [op |-> "solve_reachable_sets",
                                                i |-> i + 1, init |-> init]
                                   /\ ret' = ret
    /\ UNCHANGED <<solverVars, ivalVars, _K, fixedMat, ncalls>>

\* ---- solve_topp ----------------------------------------------------------
\* values of the keyword argument reg
RegValues == {0}

\* infeasible = (K[0, 1] < I0[0] or K[0, 0] > I0[1])
Infeasible(K0, I) == K0[1] < I[0] \/ K0[0] > I[1]
\* the test with `and` in place of `or`
NotParameterizable_and(controllable, infeasible) ==
    ~controllable /\ infeasible
\* the test before `raise ValueError(msg)`
NotParameterizable(controllable, infeasible) ==
    ~controllable \/ infeasible

\* a None stored into a float array
AsFloat(val) == IF val = None THEN NaN ELSE val[1]

solve_topp(reg) ==
    /\ pc = "idle" /\ ncalls < MaxCalls
    /\ ncalls' = ncalls + 1
    /\ BackwardBegin("solve_topp", reg)
    /\ UNCHANGED <<solverVars, ivalVars, setVars, fixedMat, qpVars>>

\* After the backward pass: raise, or set up the forward pass.
ToppCheck ==
    /\ pc = "T_check"
    /\ IF NotParameterizable(frame.controllable, Infeasible(_K[0], I0))
       THEN /\ RaisesOut("solve_topp", "ValueError")
            /\ UNCHANGED opMat
       ELSE LET m == reset_operational_rows
                A1 == [i \in DOMAIN m.A |-> [r \in DOMAIN m.A[i] |->
                         IF r = 0
                         THEN [m.A[i][r] EXCEPT ![1] = 1, ![0] = 0]
                         ELSE IF r = 1
                         THEN [m.A[i][r] EXCEPT
                                  ![1] = 1,
                                  ![0] = IF i < N THEN 2 * Ds[i] ELSE @]
                         ELSE m.A[i][r]]]
            IN  /\ SetMat([m EXCEPT !.A = A1])
                /\ pc' = "T_warm"
                /\ frame' = [op |-> "solve_topp", reg |-> frame.reg,
                             i |-> 0,
                             xs |-> [i \in 0..N |->
                                       IF i = 0 THEN Min(_K[0][1], I0[1])
                                       ELSE 0],
                             us |-> [i \in 0..(N - 1) |-> 0],
                             nWSR_topp |-> FreshBudgets]
                /\ ret' = ret
    /\ UNCHANGED <<solverVars, ivalVars, setVars, fixedMat, qpVars,
                   primlog, ncalls>>

\* _, _ = greedy_step(0, xs[0], K[1, 0], K[1, 1], init=True, reg=reg)
ToppWarmStart ==
    /\ pc = "T_warm"
    /\ LET q == greedy_step_qp(Mat, 0, frame.xs[0], _K[1][0], _K[1][1],
                               frame.reg)
       IN  \E res_up \in QPStatuses(TRUE, solver_up, q.known,
                                    q.up.feasible) :
             LET out == greedy_step_ret(q, 0, frame.xs[0], res_up)
             IN  /\ SetMat(q)
                 /\ solver_up' = QPAfter(TRUE, solver_up, res_up)
                 /\ primlog' = Append(primlog, AfterReset(
                        PrimCall("greedy_step", 0, TRUE, res_up,
                                 SUCCESSFUL_RETURN, out,
                                 Handed(q, 0, frame.nWSR_topp[0], 0,
                                        frame.reg))))
                 /\ IF out.kind = "raise"
                    THEN RaisesOut("solve_topp", out.exc)
                    ELSE /\ pc' = "T_step"
                         /\ frame' = [frame EXCEPT !.nWSR_topp[0] =
                                                     NWSRAfter(@, res_up)]
                         /\ ret' = ret
    /\ UNCHANGED <<solverVars, ivalVars, setVars, fixedMat, solver_down,
                   ncalls>>

\* one iteration of `for i in range(self.N)`, and the return after the last
ToppGreedyStep ==
    /\ pc = "T_step"
    /\ LET i == frame.i
           q == greedy_step_qp(Mat, i, frame.xs[i], _K[i + 1][0],
                               _K[i + 1][1], frame.reg)
       IN  \E res_up \in QPStatuses(FALSE, solver_up, q.known,
                                    q.up.feasible) :
             LET out == greedy_step_ret(q, i, frame.xs[i], res_up)
                 u_ == IF out.kind = "ok" THEN Some(out.u) ELSE None
                 x_ == IF out.kind = "ok" THEN Some(out.x) ELSE None
                 xs1 == [frame.xs EXCEPT ![i + 1] = AsFloat(x_)]
                 us1 == [frame.us EXCEPT ![i] = AsFloat(u_)]
             IN  /\ SetMat(q)
                 /\ solver_up' = QPAfter(FALSE, solver_up, res_up)
                 /\ primlog' = Append(primlog,
                        PrimCall("greedy_step", i, FALSE, res_up,
                                 SUCCESSFUL_RETURN, out,
                                 Handed(q, i, frame.nWSR_topp[i], 0,
                                        frame.reg)))
                 /\ IF out.kind = "raise"
                    THEN RaisesOut("solve_topp", out.exc)
                    ELSE IF i + 1 = N
                    THEN Returns("solve_topp", [us |-> us1, xs |-> xs1])
                    ELSE /\ pc' = "T_step"
                         /\ frame' = [frame EXCEPT
                                         !.i = i + 1,
                                         !.xs = xs1, !.us = us1,
                                         !.nWSR_topp[i] =
                                            NWSRAfter(@, res_up)]
                         /\ ret' = ret
    /\ UNCHANGED <<solverVars, ivalVars, setVars, fixedMat, solver_down,
                   ncalls>>

\* ------------------------------------------------------------------------
\* Constraint lists the passes are run on.  Every number is a multiple of
\* EPS and the rows bound x and u, so that the optimum of every stage
\* problem lies on the lattice XDom.
\* ------------------------------------------------------------------------
\* Canonical rows  u <= umax, -u <= umax, x <= xhi[i]  (a u + b x + c <= 0).
PassCanonical(ss_, xhi, umax) ==
    LET n == ss_.shape[1]
    IN  PathConstraint(
            Some(Arr2(n, 3, LAMBDA i, j : IF j = 0 THEN 1
                                          ELSE IF j = 1 THEN -1 ELSE 0)),
            Some(Arr2(n, 3, LAMBDA i, j : IF j = 2 THEN 1 ELSE 0)),
            Some(Arr2(n, 3, LAMBDA i, j : IF j = 2 THEN -xhi[i + 1]
                                          ELSE -umax)),
            None, None, None, None, None, None, None, None, None, ss_)
\* One equality row  2 ds_i u + x - v = 0  with the slack vlo <= v <= vhi:
\* the next state is kept within [vlo, vhi].
PassTypeI(ss_, vlo, vhi) ==
    LET n == ss_.shape[1]
        ds(i) == IF i + 1 < n THEN ss_.v[i + 1] - ss_.v[i] ELSE 1
    IN  PathConstraint(None, None, None,
            Some(Arr2(n, 1, LAMBDA i, j : 2 * ds(i))),
            Some(Arr2(n, 1, LAMBDA i, j : 1)),
            Some(Arr2(n, 1, LAMBDA i, j : 0)),
            Some(Arr3(n, 1, 1, LAMBDA i, j, k : 1)),
            Some(Arr2(n, 1, LAMBDA i, j : vlo)),
            Some(Arr2(n, 1, LAMBDA i, j : vhi)),
            None, None, None, ss_)
\* One equality row  x - w = 0  with the slack 0 <= w <= whi and one
\* inequality row  wlo <= w <= whi.
PassTypeII(ss_, wlo, whi) ==
    LET n == ss_.shape[1]
    IN  PathConstraint(None, None, None,
            Some(Arr2(n, 1, LAMBDA i, j : 0)),
            Some(Arr2(n, 1, LAMBDA i, j : 1)),
            Some(Arr2(n, 1, LAMBDA i, j : 0)),
            Some(Arr3(n, 1, 1, LAMBDA i, j, k : 1)),
            Some(Arr2(n, 1, LAMBDA i, j : 0)),
            Some(Arr2(n, 1, LAMBDA i, j : whi)),
            Some(Arr2(n, 1, LAMBDA i, j : wlo)),
            Some(Arr3(n, 1, 1, LAMBDA i, j, k : 1)),
            Some(Arr2(n, 1, LAMBDA i, j : whi)),
            ss_)

\* Velocity limits per stage, in units of EPS: flat, zero at the start,
\* zero in the middle.
PassLimits(n) ==
    { [i \in 1..(n + 1) |-> 4 * EPS],
      [i \in 1..(n + 1) |-> IF i = 1 THEN 0 ELSE 4 * EPS],
      [i \in 1..(n + 1) |-> IF i = 2 THEN 0 ELSE 3 * EPS] }

PassLists ==
    UNION { { <<PassCanonical(GridOf(n), xhi, EPS \div 2)>> :
                 xhi \in PassLimits(n) }
            \cup { <<PassCanonical(GridOf(n), [i \in 1..(n + 1) |-> 4 * EPS],
                                   EPS),
                     PassTypeI(GridOf(n), 0, 3 * EPS)>> }
          : n \in {MaxN - 1, MaxN} }
    \cup { <<PassCanonical(GridOf(MaxN - 1),
                           [i \in 1..MaxN |-> 4 * EPS], EPS),
             PassTypeII(GridOf(MaxN - 1), EPS, 3 * EPS)>> }

Init == \E cs \in PassLists : Unbuilt(cs)

Next ==
    \/ Construct
    \/ \E arg \in PassSetterArgs : set_start_interval(arg)
    \/ \E arg \in PassSetterArgs : set_goal_interval(arg)
    \/ solve_controllable_sets
    \/ BackwardProject
    \/ BackwardOneStep
    \/ solve_reachable_sets
    \/ ForwardProjectStart
    \/ ForwardReach
    \/ ForwardProject
    \/ \E reg \in RegValues : solve_topp(reg)
    \/ ToppCheck
    \/ ToppWarmStart
    \/ ToppGreedyStep

Spec == Init /\ [][Next]_vars

\* ---- the passes and reset_operational_rows called by the user ------------
\* solver.reset_operational_rows()
ResetCall ==
    /\ pc = "idle" /\ ncalls < MaxCalls
    /\ ncalls' = ncalls + 1
    /\ SetMat(reset_operational_rows)
    /\ pc' = pc
    /\ ret' = [op |-> "reset_operational_rows", kind |-> "return"]
    /\ UNCHANGED <<solverVars, ivalVars, setVars, fixedMat, qpVars, frame,
                   primlog>>
NextRows == Next \/ ResetCall
SpecRows == Init /\ [][NextRows]_vars

\* ---- the forward pass on a grid long enough for hotstarts ----------------
\* segments of the grid of the forward pass: stage i = 2 is the first to be
\* hotstarted
MaxNFwd == 3
FwdLists ==
    { <<PassCanonical(GridOf(MaxNFwd), xhi, EPS \div 2)>> :
         xhi \in PassLimits(MaxNFwd) }
    \cup { <<PassCanonical(GridOf(MaxNFwd),
                           [i \in 1..(MaxNFwd + 1) |-> 4 * EPS], EPS),
             PassTypeI(GridOf(MaxNFwd), 0, 3 * EPS)>> }
InitFwd == \E cs \in FwdLists : Unbuilt(cs)
NextFwd ==
    \/ Construct
    \/ \E arg \in PassSetterArgs : set_start_interval(arg)
    \/ solve_reachable_sets
    \/ ForwardProjectStart
    \/ ForwardReach
    \/ ForwardProject
SpecFwd == InitFwd /\ [][NextFwd]_vars

\* ---- solve_topp alone, each started call running to its end -------------
\* the steps a started call takes by itself
PassStep ==
    \/ BackwardProject
    \/ BackwardOneStep
    \/ ToppCheck
    \/ ToppWarmStart
    \/ ToppGreedyStep
NextTopp ==
    \/ Construct
    \/ \E reg \in RegValues : solve_topp(reg)
    \/ PassStep
\* the positions inside a started solve_topp
Running == {"K_proj", "K_step", "T_check", "T_warm", "T_step"}
\* A call that has started is executed statement after statement: weak
\* fairness of PassStep.  WF_vars(PassStep) is written out with
\* ENABLED <<PassStep>>_vars replaced by its value, pc \in Running (every
\* step is guarded by its position alone and appends to primlog or moves pc).
PassStepFair == []<>(pc \notin Running) \/ []<><<PassStep>>_vars
SpecTopp == Init /\ [][NextTopp]_vars /\ PassStepFair

\* ---- solve_topp with a regularization gain -------------------------------
\* Paths whose constraints carry slack variables, and the gains reg > 0.
RegLists == {cs \in PassLists : nv_(cs) > 0}
RegGains == {1}
InitReg == \E cs \in RegLists : Unbuilt(cs)
NextReg == Next \/ \E reg \in RegGains : solve_topp(reg)
SpecReg == InitReg /\ [][NextReg]_vars

\* ---- compute_trajectory_gridpoints --------------------------------------
\* IEEE arithmetic on the values met here. Velocities sd are in units of
\* 1e-8 (the square root of the unit of x), rounded down; times are in
\* units of 1/TimeScale second, rounded down. Inf is float('inf').
Inf == 2 * INFTY
TimeScale == 1000000
\* np.sqrt: nan for nan and for a negative number
FSqrt(val) ==
    IF val = NaN \/ val < 0 THEN NaN
    ELSE IF val = Inf THEN Inf
    ELSE CHOOSE r \in 0..31622 : r * r <= val /\ val < (r + 1) * (r + 1)
FAdd(p, q) ==
    IF p = NaN \/ q = NaN THEN NaN
    ELSE IF p = Inf \/ q = Inf THEN Inf
    ELSE p + q
\* p - q; inf - inf is nan
FSub(p, q) ==
    IF p = NaN \/ q = NaN THEN NaN
    ELSE IF p = Inf THEN (IF q = Inf THEN NaN ELSE Inf)
    ELSE IF q = Inf THEN -Inf
    ELSE p - q
\* a step ds > 0 of the grid divided by a sum of velocities: ds / 0 is inf
\* for numpy floats
FDivStep(ds, sd) ==
    IF sd = NaN THEN NaN
    ELSE IF sd = Inf THEN 0
    ELSE IF sd = 0 THEN Inf
    ELSE (ds * TimeScale) \div sd
FTwice(p) == IF p = NaN \/ p = Inf THEN p ELSE 2 * p
\* p < q for floats: false when either is nan
FLess(p, q) == p # NaN /\ q # NaN /\ p < q
\* p == q for floats: nan equals nothing
FEq(p, q) == p # NaN /\ q # NaN /\ p = q

\* sdgrid = np.sqrt(xgrid)
SdGrid(xgrid) == [i \in DOMAIN xgrid |-> FSqrt(xgrid[i])]
\* tgrid[i] of compute_trajectory_gridpoints
RECURSIVE TGridAt(_, _, _)
TGridAt(sgrid, xgrid, i) ==
    IF i = 0 THEN 0
    ELSE LET sdgrid == SdGrid(xgrid)
         IN  FAdd(FTwice(FDivStep(sgrid.v[i] - sgrid.v[i - 1],
                                  FAdd(sdgrid[i - 1], sdgrid[i]))),
                  TGridAt(sgrid, xgrid, i - 1))
TGrid(sgrid, xgrid) ==
    [i \in 0..(sgrid.shape[1] - 1) |-> TGridAt(sgrid, xgrid, i)]

\* compute_trajectory_gridpoints(path, ss, us, xs) on what solve_topp just
\* returned; only tgrid is modelled
compute_trajectory_gridpoints ==
    /\ pc = "idle" /\ ret.op = "solve_topp" /\ ret.kind = "return"
    /\ pc' = pc
    /\ ret' = [op |-> "compute_trajectory_gridpoints", kind |-> "return",
               value |-> TGrid(ss, ret.value.xs),
               ugrid |-> ret.value.us, xgrid |-> ret.value.xs]
    /\ UNCHANGED <<solverVars, ivalVars, setVars, fixedMat, opMat, qpVars,
                   frame, primlog, ncalls>>

\* Paths for the trajectory: the flat velocity limit, and a limit of EPS at
\* stage 1, which leaves K_0 = K_1 = [0, 0].
TrajLists ==
    { <<PassCanonical(GridOf(MaxN), [i \in 1..(MaxN + 1) |-> 4 * EPS],
                      EPS \div 2)>>,
      <<PassCanonical(GridOf(MaxN),
                      [i \in 1..(MaxN + 1) |-> IF i = 2 THEN EPS
                                               ELSE 4 * EPS],
                      EPS \div 2)>> }
InitTraj == \E cs \in TrajLists : Unbuilt(cs)
NextTraj == Next \/ compute_trajectory_gridpoints
SpecTraj == InitTraj /\ [][NextTraj]_vars

\* ---- compute_trajectory_points, the sampling loop -------------------------
\* np.arange(0, stop, dt): the times k * dt below stop; no array can be made
\* when stop is inf or nan
ARange(stop, dt) ==
    IF stop = NaN \/ stop = Inf THEN None
    ELSE Some([k \in 0..(((stop + dt - 1) \div dt) - 1) |-> k * dt])
\* the index moves on when the sample has reached the next grid time
Advance_atGridTime(t, tgrid, igrid, n) ==
    LET RECURSIVE W(_)
        W(j) == IF j + 1 > n THEN n
                ELSE IF ~FLess(t, tgrid[j + 1]) THEN W(j + 1) ELSE j
    IN  W(igrid)
\* while t > tgrid[igrid + 1]: igrid += 1
\* The result is n when the loop would read tgrid[n + 1] (an IndexError).
Advance(t, tgrid, igrid, n) ==
    LET RECURSIVE W(_)
        W(j) == IF j + 1 > n THEN n
                ELSE IF FLess(tgrid[j + 1], t) THEN W(j + 1) ELSE j
    IN  W(igrid)
\* the sample of segment 0 whatever the index
USample_first(ugrid, igrid) == ugrid[0]
\* usample[i] = ugrid[igrid]
USample(ugrid, igrid) == ugrid[igrid]

\* Speeds of 0, 2e-7 and 4e-7 at the grid points, accelerations of either
\* sign, and two sampling steps.
MaxNS == 2
SampleDts == {10000, 25000}
SampleInputs ==
    UNION { [sgrid : {GridOf(n)},
             xgrid : [0..n -> {0, 400, 1600}],
             ugrid : [0..(n - 1) -> {-1, 1}],
             dt : SampleDts] : n \in 1..MaxNS }

InitSample ==
    /\ pc = "sample_args"
    /\ \E k \in SampleInputs :
          frame = [op |-> "compute_trajectory_points", args |-> k]
    /\ constraint_set = << >>
    /\ ss = Arr1(0, LAMBDA i : 0)
    /\ N = 0
    /\ I0 = << >> /\ I_N = << >>
    /\ _K = << >> /\ _L = << >>
    /\ A = << >> /\ lA = << >> /\ hA = << >>
    /\ l = << >> /\ h = << >>
    /\ H = << >> /\ g = << >>
    /\ solver_up = "none" /\ solver_down = "none"
    /\ primlog = << >>
    /\ ret = NoRet
    /\ ncalls = 0

\* tgrid and tsample of compute_trajectory_points
SampleBegin ==
    /\ pc = "sample_args"
    /\ LET k == frame.args
           n == k.sgrid.shape[1] - 1
           tgrid == TGrid(k.sgrid, k.xgrid)
           tsample == ARange(tgrid[n], k.dt)
       IN  IF tsample = None
           THEN /\ pc' = "sample_done"
                /\ ret' = [op |-> "compute_trajectory_points",
                           kind |-> "raise", exc |-> "ValueError"]
                /\ frame' = frame
           ELSE /\ pc' = "sample_loop"
                /\ frame' = [op |-> "compute_trajectory_points", args |-> k,
                             N |-> n, tgrid |-> tgrid,
                             tsample |-> tsample[1], i |-> 0, igrid |-> 0,
                             samples |-> << >>]
                /\ ret' = ret
    /\ UNCHANGED <<solverVars, ivalVars, setVars, fixedMat, opMat, qpVars,
                   primlog, ncalls>>

\* one iteration of `for i, t in enumerate(tsample)`, or the end of the loop;
\* of the arrays filled, usample is modelled
SampleStep ==
    /\ pc = "sample_loop"
    /\ IF frame.i \notin DOMAIN frame.tsample
       THEN /\ pc' = "sample_done"
            /\ ret' = [op |-> "compute_trajectory_points",
                       kind |-> "return", value |-> frame.samples,
                       tgrid |-> frame.tgrid, N |-> frame.N,
                       ugrid |-> frame.args.ugrid]
            /\ frame' = frame
       ELSE LET t == frame.tsample[frame.i]
                igrid == Advance(t, frame.tgrid, frame.igrid, frame.N)
            IN  IF igrid = frame.N
                THEN /\ pc' = "sample_done"
                     /\ ret' = [op |-> "compute_trajectory_points",
                                kind |-> "raise", exc |-> "IndexError"]
                     /\ frame' = frame
                ELSE /\ pc' = pc
                     /\ frame' = [frame EXCEPT
                                    !.i = @ + 1, !.igrid = igrid,
                                    !.samples = Append(@,
                                        [t |-> t, igrid |-> igrid,
                                         usample |->
                                            USample(frame.args.ugrid,
                                                    igrid)])]
                     /\ ret' = ret
    /\ UNCHANGED <<solverVars, ivalVars, setVars, fixedMat, opMat, qpVars,
                   primlog, ncalls>>

NextSample == SampleBegin \/ SampleStep
SpecSample == InitSample /\ [][NextSample]_vars

\* ---- compute_trajectory_points, smooth=True ------------------------------
\* The least-square smoothing of one joint. Positions, velocities and
\* accelerations are integers and dt is even, so that dt ** 2 / 2 is exact.
\* A = [[1, dt], [0, 1]] applied to the pair v, and B = [dt ** 2 / 2, dt]
SmoothA(dt, v) == <<v[1] + dt * v[2], v[2]>>
SmoothB(dt) == <<(dt * dt) \div 2, dt>>

\* Phi with every column holding B in its diagonal block only
PhiBlock_diagonal(dt, i, c) ==
    IF i = c THEN SmoothB(dt) ELSE <<0, 0>>
\* Phi[2 * i : 2 * i + 2, c] after the three loops: B in the diagonal block,
\* A times the block above it in the first column, and every next column
\* the column before it moved down by two rows
RECURSIVE PhiBlock(_, _, _)
PhiBlock(dt, i, c) ==
    IF i < c THEN <<0, 0>>
    ELSE IF c = 0
    THEN IF i = 0 THEN SmoothB(dt)
         ELSE SmoothA(dt, PhiBlock(dt, i - 1, 0))
    ELSE PhiBlock(dt, i - 1, c - 1)
\* Beta[2 * i : 2 * i + 2, :] applied to x0: A, then A times the block above
RECURSIVE BetaBlock(_, _, _)
BetaBlock(dt, i, x0) ==
    IF i = 0 THEN SmoothA(dt, x0)
    ELSE SmoothA(dt, BetaBlock(dt, i - 1, x0))

\* (Phi . sol)[2 * i : 2 * i + 2] for sol of length M_
PhiDot(dt, M_, sol, i) ==
    <<SumTo([c \in 1..M_ |-> PhiBlock(dt, i, c - 1)[1] * sol[c]], M_),
      SumTo([c \in 1..M_ |-> PhiBlock(dt, i, c - 1)[2] * sol[c]], M_)>>
\* Xsol = np.dot(Phi, sol) + np.dot(Beta, x0), reshaped to rows of pairs
Xsol(dt, M_, sol, x0) ==
    [i \in 0..(M_ - 1) |->
        <<PhiDot(dt, M_, sol, i)[1] + BetaBlock(dt, i, x0)[1],
          PhiDot(dt, M_, sol, i)[2] + BetaBlock(dt, i, x0)[2]>>]

\* largest acceleration of the candidates of the least-square problem, and
\* the gain smooth_eps
SolMax == 2
smooth_eps == 1
\* Twice the objective quadprog minimises, 1/2 sol' G sol - a' sol, with
\* G = Phi' Phi + Delta' Delta * smooth_eps and a = -Phi' (Beta x0 - Xd);
\* q_ and qd_ are the unsmoothed samples (Xd is their rows 1..M).
SmoothObjective2(dt, M_, sol, x0, q_, qd_) ==
    LET ps(i) == PhiDot(dt, M_, sol, i)
        r(i) == <<BetaBlock(dt, i, x0)[1] - q_[i + 1],
                  BetaBlock(dt, i, x0)[2] - qd_[i + 1]>>
    IN  SumTo([k \in 1..M_ |->
                  ps(k - 1)[1] * ps(k - 1)[1] + ps(k - 1)[2] * ps(k - 1)[2]
                  + 2 * (r(k - 1)[1] * ps(k - 1)[1]
                         + r(k - 1)[2] * ps(k - 1)[2])], M_)
        + smooth_eps
          * SumTo([k \in 1..(M_ - 1) |->
                      (sol[k] - sol[k + 1]) * (sol[k] - sol[k + 1])],
                  M_ - 1)
\* quadprog.solve_qp(G, a, C, b, meq=2)[0] with C = Phi[2M - 2:].T and
\* b = xM - Beta[2M - 2:] . x0: the candidates meeting both equalities, at
\* the least objective
SolveQP(dt, M_, x0, xM, q_, qd_) ==
    LET cand == {sol \in [1..M_ -> (-SolMax)..SolMax] :
                    /\ PhiDot(dt, M_, sol, M_ - 1)[1]
                       = xM[1] - BetaBlock(dt, M_ - 1, x0)[1]
                    /\ PhiDot(dt, M_, sol, M_ - 1)[2]
                       = xM[2] - BetaBlock(dt, M_ - 1, x0)[2]}
        scored == {<<SmoothObjective2(dt, M_, sol, x0, q_, qd_), sol>>
                     : sol \in cand}
    IN  {p[2] : p \in {p \in scored : \A o \in scored : p[1] <= o[1]}}

\* The loop body for one joint: the smoothed (q, qd, qdd) given sol.
Smoothed(dt, M_, q_, qd_, qdd_, sol) ==
    LET x0 == <<q_[0], qd_[0]>>
        X == Xsol(dt, M_, sol, x0)
    IN  [q |-> [k \in 0..M_ |-> IF k = 0 THEN q_[0] ELSE X[k - 1][1]],
         qd |-> [k \in 0..M_ |-> IF k = 0 THEN qd_[0] ELSE X[k - 1][2]],
         qdd |-> [k \in 0..M_ |-> IF k < M_ THEN sol[k + 1] ELSE sol[M_]]]

\* most samples after the first, and the sampling steps
MaxM == 3
SmoothDts == {2, 4}
\* Unsmoothed samples of one joint: those of a motion from x0 under
\* accelerations w (so that the end state can be met), moved off that
\* motion by d at sample 1; the unsmoothed qdd is w with its last repeated.
SmoothInputs ==
    UNION { { LET X == Xsol(dt, M_, w, x0)
              IN  [dt |-> dt, M |-> M_,
                   q |-> [k \in 0..M_ |->
                            IF k = 0 THEN x0[1]
                            ELSE IF k = 1 THEN X[0][1] + d
                            ELSE X[k - 1][1]],
                   qd |-> [k \in 0..M_ |->
                             IF k = 0 THEN x0[2] ELSE X[k - 1][2]],
                   qdd |-> [k \in 0..M_ |->
                              IF k < M_ THEN w[k + 1] ELSE w[M_] + d]]
                : w \in [1..M_ -> {-1, 0, 1}],
                  x0 \in {<<0, 0>>, <<1, -1>>}, d \in {0, 1} }
            : M_ \in 2..MaxM, dt \in SmoothDts }

InitSmooth ==
    /\ pc = "smooth_args"
    /\ \E k \in SmoothInputs :
          frame = [op |-> "compute_trajectory_points", args |-> k]
    /\ constraint_set = << >>
    /\ ss = Arr1(0, LAMBDA i : 0)
    /\ N = 0
    /\ I0 = << >> /\ I_N = << >>
    /\ _K = << >> /\ _L = << >>
    /\ A = << >> /\ lA = << >> /\ hA = << >>
    /\ l = << >> /\ h = << >>
    /\ H = << >> /\ g = << >>
    /\ solver_up = "none" /\ solver_down = "none"
    /\ primlog = << >>
    /\ ret = NoRet
    /\ ncalls = 0

\* the else-branch of compute_trajectory_points for one joint
SmoothTrajectory ==
    /\ pc = "smooth_args"
    /\ pc' = "smooth_done"
    /\ LET k == frame.args
       IN  \E sol \in SolveQP(k.dt, k.M, <<k.q[0], k.qd[0]>>,
                              <<k.q[k.M], k.qd[k.M]>>, k.q, k.qd) :
              ret' = [op |-> "compute_trajectory_points", kind |-> "return",
                      value |-> Smoothed(k.dt, k.M, k.q, k.qd, k.qdd, sol)]
    /\ UNCHANGED <<solverVars, ivalVars, setVars, fixedMat, opMat, qpVars,
                   frame, primlog, ncalls>>

NextSmooth == SmoothTrajectory
SpecSmooth == InitSmooth /\ [][NextSmooth]_vars

\* The setters alone, with every kind of argument.
NextSet ==
    \/ Construct
    \/ \E arg \in SetterArgs : set_start_interval(arg)
    \/ \E arg \in SetterArgs : set_goal_interval(arg)

SpecSet == Init /\ [][NextSet]_vars

InitAsm == \E cs \in AsmLists : Unbuilt(cs)
NextAsm == Construct \/ ConstructFails
SpecAsm == InitAsm /\ [][NextAsm]_vars

\* ---- PathConstraint and interpolate_constraint on their own ------------
\* widest block of the constraints built here
MaxWidth == 2
\* The keyword arguments of PathConstraint: each group of blocks is given
\* or left out; D, l and h come with abar, bbar, cbar, and G, hG with lG.
PCCanonical(n) ==
    {[a |-> None, b |-> None, c |-> None]} \cup
    {[a |-> Some(Arr2(n, w, LAMBDA i, j : Coef(1, i, j, 0))),
      b |-> Some(Arr2(n, w, LAMBDA i, j : Coef(2, i, j, 0))),
      c |-> Some(Arr2(n, w, LAMBDA i, j : Coef(3, i, j, 0)))]
        : w \in 1..MaxWidth}
PCTypeI(n) ==
    {[abar |-> None, bbar |-> None, cbar |-> None, D |-> None,
      l |-> None, h |-> None]} \cup
    {[abar |-> Some(Arr2(n, ew[1], LAMBDA i, j : Coef(4, i, j, 0))),
      bbar |-> Some(Arr2(n, ew[1], LAMBDA i, j : Coef(5, i, j, 0))),
      cbar |-> Some(Arr2(n, ew[1], LAMBDA i, j : Coef(6, i, j, 0))),
      D |-> Some(Arr3(n, ew[1], ew[2], LAMBDA i, j, k : Coef(7, i, j, k))),
      l |-> Some(Arr2(n, ew[2], LAMBDA i, j : -Coef(8, i, j, 0))),
      h |-> Some(Arr2(n, ew[2], LAMBDA i, j : Coef(8, i, j, 0)))]
        : ew \in {<<0, 1>>, <<1, 1>>, <<1, MaxWidth>>, <<MaxWidth, 1>>}}
PCTypeII(n, w) ==
    {[lG |-> None, G |-> None, hG |-> None]} \cup
    {[lG |-> Some(Arr2(n, q, LAMBDA i, j : -Coef(9, i, j, 0))),
      G |-> Some(Arr3(n, q, w, LAMBDA i, j, k : Coef(10, i, j, k))),
      hG |-> Some(Arr2(n, q, LAMBDA i, j : Coef(9, i, j, 0)))]
        : q \in 1..MaxWidth}
PCArgs ==
    UNION { UNION { { [a |-> x.a, b |-> x.b, c |-> x.c,
                       abar |-> y.abar, bbar |-> y.bbar, cbar |-> y.cbar,
                       D |-> y.D, l |-> y.l, h |-> y.h,
                       lG |-> z.lG, G |-> z.G, hG |-> z.hG,
                       ss |-> GridOf(n)]
                      : z \in PCTypeII(n + 1,
                                       IF y.D = None THEN 0
                                       ELSE y.D[1].shape[3]) }
                    : x \in PCCanonical(n + 1), y \in PCTypeI(n + 1) }
            : n \in 0..MaxN }
\* what np.empty may hand out for an entry that is never written
Junk == {0, 7777}

\* No solver exists; the arguments of a PathConstraint(...) call are in
\* frame.
InitPC ==
    /\ pc = "pc_args"
    /\ \E args \in PCArgs : frame = [op |-> "PathConstraint", args |-> args]
    /\ constraint_set = << >>
    /\ ss = Arr1(0, LAMBDA i : 0)
    /\ N = 0
    /\ I0 = << >> /\ I_N = << >>
    /\ _K = << >> /\ _L = << >>
    /\ A = << >> /\ lA = << >> /\ hA = << >>
    /\ l = << >> /\ h = << >>
    /\ H = << >> /\ g = << >>
    /\ solver_up = "none" /\ solver_down = "none"
    /\ primlog = << >>
    /\ ret = NoRet
    /\ ncalls = 0

\* PathConstraint(**args)
PathConstraintInit ==
    /\ pc = "pc_args"
    /\ pc' = "pc_built"
    /\ LET k == frame.args
       IN  ret' = [op |-> "PathConstraint", kind |-> "return",
                   value |-> PathConstraint(k.a, k.b, k.c,
                                            k.abar, k.bbar, k.cbar,
                                            k.D, k.l, k.h,
                                            k.lG, k.G, k.hG, k.ss)]
    /\ UNCHANGED <<solverVars, ivalVars, setVars, fixedMat, opMat, qpVars,
                   frame, primlog, ncalls>>

\* interpolate_constraint(pc) on the constraint just built; input is the
\* argument as it is after the call
InterpolateConstraint ==
    /\ pc = "pc_built"
    /\ pc' = "pc_interpolated"
    /\ \E junk \in Junk :
          ret' = [op |-> "interpolate_constraint", kind |-> "return",
                  value |-> interpolate_constraint(ret.value, junk),
                  input |-> ret.value]
    /\ UNCHANGED <<solverVars, ivalVars, setVars, fixedMat, opMat, qpVars,
                   frame, primlog, ncalls>>

NextPC == PathConstraintInit \/ InterpolateConstraint
SpecPC == InitPC /\ [][NextPC]_vars

\* ---- the accessors K and L ----------------------------------------------
\* the mask keeping the rows whose lower end-point is above TINY
Shown_positive(row) == row[0] > TINY
\* The mask of the accessors: self._K[:, 0] > - TINY
Shown(row) == row[0] > -TINY
\* arr[mask] for the (N+1, 2) array arr: the rows kept, in stage order
MaskedRows(arr) ==
    SelectSeq([k \in 1..(N + 1) |-> arr[k - 1]], LAMBDA row : Shown(row))
\* the properties K and L
K == MaskedRows(_K)
L == MaskedRows(_L)

\* ------------------------------------------------------------------------
\* Properties
\* ------------------------------------------------------------------------
Passes == {"solve_controllable_sets", "solve_reachable_sets", "solve_topp"}
\* the primitives of kind prim logged by the running or last call
Logged(prim) == {k \in 1..Len(primlog) : primlog[k].prim = prim}

\* C1: when the backward pass of solve_topp returned False, or K_0.high <
\* I0.low, or K_0.low > I0.high, solve_topp raises (it returns no (us, xs))
\* and no greedy_step has been invoked; otherwise it goes on to the forward
\* pass.
C1_RaisesWhenNotParameterizable ==
    [][pc = "T_check" =>
         IF ~frame.controllable \/ _K[0][1] < I0[0] \/ _K[0][0] > I0[1]
         THEN /\ pc' = "idle"
              /\ ret'.op = "solve_topp" /\ ret'.kind = "raise"
              /\ Logged("greedy_step")' = {}
         ELSE pc' = "T_warm"]_vars
\* solve_topp has raised after a backward pass that returned True: the
\* start interval misses K_0.
C1_Witness ==
    /\ pc = "idle" /\ ret.op = "solve_topp" /\ ret.kind = "raise"
    /\ ret.exc = "ValueError"
    /\ Len(primlog) = N + 1
    /\ \A k \in 1..Len(primlog) : primlog[k].out = "ok"
    /\ _K[0][0] <= _K[0][1] /\ _K[0][0] > I0[1]

\* C2: a pass in which a primitive returned (None, None) stops at that
\* primitive and reports failure: False from solve_controllable_sets and
\* solve_reachable_sets, an exception from solve_topp.
C2_FailurePropagates ==
    (pc = "idle" /\ ret.op \in Passes
        /\ \E k \in 1..Len(primlog) : primlog[k].out = "none")
    => /\ primlog[Len(primlog)].out = "none"
       /\ IF ret.op = "solve_topp" THEN ret.kind = "raise"
          ELSE ret.kind = "return" /\ ret.value = FALSE

\* C3: a primitive one of whose solver calls answered a status other than
\* SUCCESSFUL_RETURN returns (None, None): it neither raises nor returns
\* numbers.
C3_NonSuccessGivesNone ==
    \A k \in 1..Len(primlog) :
       (primlog[k].res_up # SUCCESSFUL_RETURN
           \/ primlog[k].res_down # SUCCESSFUL_RETURN)
       => primlog[k].out = "none"

\* controls tried when an admissible control is looked for
UCand == {(EPS \div 4) * k : k \in -8..8}
\* (u, x, v) satisfies every constraint row (the rows below the operational
\* ones) and every bound of stage i.
Admissible(i, u, x, v) ==
    /\ l[i][0] <= u /\ u <= h[i][0]
    /\ l[i][1] <= x /\ x <= h[i][1]
    /\ \A j \in 0..(nv - 1) : l[i][j + 2] <= v[j] /\ v[j] <= h[i][j + 2]
    /\ \A r \in nop..(nC - 1) :
          LET val == A[i][r][0] * u + A[i][r][1] * x
                     + SumTo([j \in 1..nv |-> A[i][r][j + 1] * v[j - 1]], nv)
          IN  lA[i][r] <= val /\ val <= hA[i][r]

\* C4: after solve_controllable_sets returned True, from every x of K_i
\* (i < N) some admissible control u (with slack v) leads into K_{i+1}:
\* K_{i+1}.low <= x + 2 Ds_i u <= K_{i+1}.high.
C4_OneStepIntoNext ==
    (pc = "idle" /\ ret.op = "solve_controllable_sets"
        /\ ret.kind = "return" /\ ret.value = TRUE)
    => \A i \in 0..(N - 1) :
          \A x \in {y \in XDom : _K[i][0] <= y /\ y <= _K[i][1]} :
             \E u \in UCand, v \in [0..(nv - 1) -> XDom] :
                /\ Admissible(i, u, x, v)
                /\ _K[i + 1][0] <= x + 2 * Ds[i] * u
                /\ x + 2 * Ds[i] * u <= _K[i + 1][1]
\* solve_controllable_sets returned True with more than one state in K_0
\* and a goal interval that K_N fills.
C4_Witness ==
    /\ pc = "idle" /\ ret.op = "solve_controllable_sets"
    /\ ret.kind = "return" /\ ret.value = TRUE
    /\ N >= 1 /\ nv >= 1
    /\ _K[0][0] < _K[0][1]
    /\ _K[N] = I_N /\ I_N[0] > 0

\* an interval (low, high) with low <= high + SUPERTINY and low >= 0
WellFormed(I) == I[0] <= I[1] + SUPERTINY /\ I[0] >= 0

\* C5: after solve_controllable_sets returned True every K_i has
\* K_i.low <= K_i.high + SUPERTINY and K_i.low >= 0, and after
\* solve_reachable_sets returned True every L_i has the same.
C5_IntervalsWellFormed ==
    (pc = "idle" /\ ret.kind = "return"
        /\ ret.op \in {"solve_controllable_sets", "solve_reachable_sets"}
        /\ ret.value = TRUE)
    => \A i \in 0..N :
          IF ret.op = "solve_controllable_sets" THEN WellFormed(_K[i])
          ELSE WellFormed(_L[i])

\* C6: the profile solve_topp returns starts at min(K_0.high, I0.high) and
\* ends inside the goal interval.
C6_ProfileEnds ==
    (pc = "idle" /\ ret.op = "solve_topp" /\ ret.kind = "return")
    => /\ ret.value.xs[0] = Min(_K[0][1], I0[1])
       /\ I_N[0] <= ret.value.xs[N]
       /\ ret.value.xs[N] <= I_N[1]

\* C7: the arrays solve_topp returns satisfy x_{i+1} = x_i + 2 Ds_i u_i for
\* every i < N.
C7_ProfileFollowsControls ==
    (pc = "idle" /\ ret.op = "solve_topp" /\ ret.kind = "return")
    => \A i \in 0..(N - 1) :
          /\ ret.value.xs[i + 1] # NaN /\ ret.value.us[i] # NaN
          /\ ret.value.xs[i + 1]
                = ret.value.xs[i] + 2 * Ds[i] * ret.value.us[i]

\* Column c0 holds every slack block of constraint k at every stage: its
\* box (l, h), -D in its equality rows and G in its Type-II rows.
SlackBlocksAt(k, c0) ==
    LET c == constraint_set[k]
    IN  \A i \in 0..N : \A m \in 0..(c.nv - 1) :
           /\ l[i][c0 + m] = Stage(c.l, i)[m]
           /\ h[i][c0 + m] = Stage(c.h, i)[m]
           /\ \A j \in 0..(c.neq - 1) :
                 A[i][RowEq(constraint_set, k) + j][c0 + m]
                    = -Stage(c.D, i)[j][m]
           /\ \A j \in 0..(c.niq - 1) :
                 A[i][RowIq(constraint_set, k) + j][c0 + m]
                    = Stage(c.G, i)[j][m]

\* C8: every constraint with slack variables has one column range that
\* holds its slack box, the -D block of its equality rows and the G block
\* of its Type-II rows.
C8_OneColumnRange ==
    pc = "idle" =>
       \A k \in 1..Len(constraint_set) :
          constraint_set[k].nv # 0 =>
             \E c0 \in 2..(nV - constraint_set[k].nv) : SlackBlocksAt(k, c0)

\* C9: nV = 2 + sum(nv) columns and nC = 3 + sum(nm) + sum(neq) + sum(niq)
\* rows; rows 0..2 are zero; then the canonical rows of each constraint
\* (A col 0 = a, col 1 = b, lA = -INFTY, hA = -c), then the equality rows
\* (col 0 = abar, col 1 = bbar, lA = hA = -cbar), then the Type-II rows
\* (lA = lG, hA = hG), each group in list order without gaps.
C9_RowPacking ==
    pc = "idle" =>
       LET cs == constraint_set
           n == Len(cs)
           Before(field, k) == SumTo([j \in 1..n |-> cs[j][field]], k - 1)
           Total(field) == Before(field, n + 1)
           canAt(k) == 3 + Before("nm", k)
           eqAt(k) == 3 + Total("nm") + Before("neq", k)
           iqAt(k) == 3 + Total("nm") + Total("neq") + Before("niq", k)
           rows == 0..(3 + Total("nm") + Total("neq") + Total("niq") - 1)
           cols == 0..(2 + Total("nv") - 1)
       IN  \A i \in 0..N :
              /\ DOMAIN A[i] = rows /\ DOMAIN lA[i] = rows
              /\ DOMAIN hA[i] = rows
              /\ DOMAIN l[i] = cols /\ DOMAIN h[i] = cols
              /\ \A r \in rows : DOMAIN A[i][r] = cols
              /\ \A r \in 0..2 :
                    /\ lA[i][r] = 0 /\ hA[i][r] = 0
                    /\ \A col \in cols : A[i][r][col] = 0
              /\ \A k \in 1..n :
                    /\ \A j \in 0..(cs[k].nm - 1) :
                          /\ A[i][canAt(k) + j][0] = Stage(cs[k].a, i)[j]
                          /\ A[i][canAt(k) + j][1] = Stage(cs[k].b, i)[j]
                          /\ lA[i][canAt(k) + j] = -INFTY
                          /\ hA[i][canAt(k) + j] = -Stage(cs[k].c, i)[j]
                    /\ \A j \in 0..(cs[k].neq - 1) :
                          /\ A[i][eqAt(k) + j][0] = Stage(cs[k].abar, i)[j]
                          /\ A[i][eqAt(k) + j][1] = Stage(cs[k].bbar, i)[j]
                          /\ lA[i][eqAt(k) + j] = -Stage(cs[k].cbar, i)[j]
                          /\ hA[i][eqAt(k) + j] = -Stage(cs[k].cbar, i)[j]
                    /\ \A j \in 0..(cs[k].niq - 1) :
                          /\ lA[i][iqAt(k) + j] = Stage(cs[k].lG, i)[j]
                          /\ hA[i][iqAt(k) + j] = Stage(cs[k].hG, i)[j]
\* a solver built from three constraints, one of each kind
C9_Witness ==
    /\ pc = "idle" /\ Len(constraint_set) = 3
    /\ {constraint_set[k].kind : k \in 1..3}
          = {"Canonical", "TypeI", "TypeII"}
    /\ constraint_set[1].kind = "TypeI"

WithinTolerance(c_ss, s_ss) ==
    LET n == c_ss.shape[1]
        m == s_ss.shape[1]
    IN  /\ n = m \/ n = 1 \/ m = 1
        /\ \A i \in 0..(Max(n, m) - 1) :
              LET ci == IF n = 1 THEN c_ss.v[0] ELSE c_ss.v[i]
                  si == IF m = 1 THEN s_ss.v[0] ELSE s_ss.v[i]
                  d == IF ci >= si THEN ci - si ELSE si - ci
              IN  100000 * d <= 100000 + (IF si >= 0 THEN si ELSE -si)

Setters == {"set_start_interval", "set_goal_interval"}
\* a pair (low, high) with 0 <= low <= high
ValidInterval(I) == DOMAIN I = 0..1 /\ 0 <= I[0] /\ I[0] <= I[1]

\* C11: on a constructed solver, after any sequence of setter calls, I0 and
\* IN are pairs (low, high) with 0 <= low <= high, and an accepted scalar
\* argument v is stored as (v, v).
C11_IntervalsValid ==
    pc = "idle" =>
       /\ ValidInterval(I0) /\ ValidInterval(I_N)
       /\ (ret.op \in Setters /\ ret.kind = "return" /\ Len(ret.arg) = 1)
          => LET I == IF ret.op = "set_start_interval" THEN I0 ELSE I_N
             IN  I[0] = ret.arg[1] /\ I[1] = ret.arg[1]
\* a positive scalar goal was accepted after a start interval was set
C11_Witness ==
    /\ pc = "idle" /\ ret.op = "set_goal_interval" /\ ret.kind = "return"
    /\ Len(ret.arg) = 1 /\ ret.arg[1] > 0
    /\ I0 = Pair(EPS, 2 * EPS)

\* the argument has a negative lower end-point, low > high, or more than
\* two entries
BadInterval(arg) ==
    \/ Len(arg) > 2
    \/ Len(arg) >= 1 /\ arg[1] < 0
    \/ Len(arg) = 2 /\ arg[1] > arg[2]

\* C12: a setter call whose argument has a negative lower end-point, low >
\* high or more than two entries raises, and leaves I0, IN, K and L as they
\* were.
C12_RejectedCallChangesNothing ==
    [][(pc' = "idle" /\ ret'.op \in Setters /\ ncalls' = ncalls + 1)
          => /\ BadInterval(ret'.arg) => ret'.kind = "raise"
             /\ ret'.kind = "raise" =>
                   (I0' = I0 /\ I_N' = I_N /\ _K' = _K /\ _L' = _L)]_vars
\* a call with three entries was rejected after both intervals had been set
C12_Witness ==
    /\ pc = "idle" /\ ret.op \in Setters /\ ret.kind = "raise"
    /\ Len(ret.arg) = 3
    /\ I0 # Pair(I0Default[1], I0Default[2])

\* width of an optional two-dimensional block: its second dimension, 0 when
\* the block is left out
WidthOf(opt) == IF opt = None THEN 0 ELSE opt[1].shape[2]
\* every block that was left out is stored with first dimension N+1 and
\* width 0
MissingAreEmpty(args, con) ==
    LET n == args.ss.shape[1]
    IN  /\ args.a = None =>
             con.a.shape = <<n, 0>> /\ con.b.shape = <<n, 0>>
             /\ con.c.shape = <<n, 0>>
        /\ args.D = None =>
             con.abar.shape = <<n, 0>> /\ con.bbar.shape = <<n, 0>>
             /\ con.cbar.shape = <<n, 0>>
             /\ con.D.shape[1] = n /\ con.D.shape[2] = 0
             /\ con.D.shape[3] = 0
        /\ args.l = None =>
             con.l.shape = <<n, 0>> /\ con.h.shape = <<n, 0>>
        /\ args.lG = None =>
             con.lG.shape = <<n, 0>> /\ con.hG.shape = <<n, 0>>
             /\ con.G.shape[1] = n /\ con.G.shape[2] = 0

EvalPoints == {-2, 0, 1, 3}
\* row j of the blocks (X, Y, Z) of constraint con at stage i, at (u, x)
RowValue(con, X, Y, Z, i, j, u, x) ==
    con[X].v[i][j] * u + con[Y].v[i][j] * x + con[Z].v[i][j]
\* the right half of (X, Y, Z) in o is row i+1 of p at the next state, and
\* the left half is row i of p
ShiftedRows(p, o, X, Y, Z) ==
    LET w == p[X].shape[2]
    IN  /\ \A i \in 0..(p.N - 1), j \in 0..(w - 1) :
             \A u \in EvalPoints, x \in EvalPoints :
                RowValue(o, X, Y, Z, i, w + j, u, x)
                  = RowValue(p, X, Y, Z, i + 1, j,
                             u, x + 2 * (p.ss.v[i + 1] - p.ss.v[i]) * u)
        /\ \A i \in 0..p.N, j \in 0..(w - 1) :
             /\ o[X].v[i][j] = p[X].v[i][j]
             /\ o[Y].v[i][j] = p[Y].v[i][j]
             /\ o[Z].v[i][j] = p[Z].v[i][j]

\* C14: in the result of interpolate_constraint, for every stage i < N and
\* every (u, x), right-half canonical row j evaluates to a[i+1][j] * u +
\* b[i+1][j] * (x + 2 * Ds[i] * u) + c[i+1][j], the same holds for the
\* right-half equality rows (abar, bbar, cbar), and the left halves are the
\* original rows of stage i.
C14_RightHalfIsNextStage ==
    (pc = "pc_interpolated") =>
       /\ ShiftedRows(ret.input, ret.value, "a", "b", "c")
       /\ ShiftedRows(ret.input, ret.value, "abar", "bbar", "cbar")
\* a constraint with canonical and equality rows on the longest grid was
\* interpolated
C14_Witness ==
    /\ pc = "pc_interpolated"
    /\ ret.input.N = MaxN /\ ret.input.nm = MaxWidth /\ ret.input.neq >= 1

\* both halves of the two-dimensional block X of o hold row N of p at
\* stage N
LastRowTwice(p, o, X) ==
    LET w == p[X].shape[2]
    IN  /\ o[X].shape = <<p.N + 1, 2 * w>>
        /\ \A j \in 0..(w - 1) :
              /\ o[X].v[p.N][j] = p[X].v[p.N][j]
              /\ o[X].v[p.N][w + j] = p[X].v[p.N][j]
\* both diagonal blocks of the three-dimensional block X of o hold X[N] of p
\* at stage N
LastBlockTwice(p, o, X) ==
    LET r == p[X].shape[2]
        w == p[X].shape[3]
    IN  /\ o[X].shape = <<p.N + 1, 2 * r, 2 * w>>
        /\ \A j \in 0..(r - 1), k \in 0..(w - 1) :
              /\ o[X].v[p.N][j][k] = p[X].v[p.N][j][k]
              /\ o[X].v[p.N][r + j][w + k] = p[X].v[p.N][j][k]

\* C15: interpolate_constraint returns a constraint on the same grid with
\* nm, neq, niq and nv twice those of its argument and with the same kind;
\* at stage N both halves of every block hold row N of the argument (no
\* 2 * Ds * b term there); the argument's arrays are as they were.
C15_DoubledSameKind ==
    (pc = "pc_interpolated") =>
       LET p == ret.input
           o == ret.value
           k == frame.args
       IN  /\ o.ss = p.ss /\ o.N = p.N
           /\ o.nm = 2 * p.nm /\ o.neq = 2 * p.neq
           /\ o.niq = 2 * p.niq /\ o.nv = 2 * p.nv
           /\ o.kind = p.kind
           /\ \A X \in {"a", "b", "c", "abar", "bbar", "cbar",
                        "l", "h", "lG", "hG"} : LastRowTwice(p, o, X)
           /\ LastBlockTwice(p, o, "D") /\ LastBlockTwice(p, o, "G")
           /\ p = PathConstraint(k.a, k.b, k.c, k.abar, k.bbar, k.cbar,
                                 k.D, k.l, k.h, k.lG, k.G, k.hG, k.ss)
\* a constraint with all blocks was interpolated, G_intp holding leftover
\* memory outside its diagonal blocks
C15_Witness ==
    /\ pc = "pc_interpolated"
    /\ ret.input.N = MaxN /\ ret.input.nm > 0 /\ ret.input.neq > 0
    /\ ret.input.niq > 0 /\ ret.input.nv > 0
    /\ ret.value.G.v[0][0][ret.input.nv] # 0

\* the stages of arr whose lower end-point is >= -TINY
Kept(arr) == {i \in 0..N : arr[i][0] >= -TINY}
\* rows is the rows of arr at the stages of S, in stage order
RowsOfStages(rows, arr, S) ==
    /\ Len(rows) = Cardinality(S)
    /\ \A i \in S : rows[Cardinality({j \in S : j < i}) + 1] = arr[i]
\* the stages for which the running or last call got a set from primitive
\* prim
Computed(prim) ==
    {primlog[k].i : k \in {n \in Logged(prim) : primlog[n].out = "ok"}}
\* the last call was a pass and reported a failure
PassFailed ==
    /\ pc = "idle" /\ ret.op \in Passes
    /\ \/ ret.kind = "raise"
       \/ ret.kind = "return" /\ ret.op # "solve_topp" /\ ret.value = FALSE

\* C16: K and L are the rows of _K and _L whose lower end-point is >= -TINY,
\* in stage order; both are empty on a freshly constructed solver; after a
\* pass that failed part-way on a fresh solver they hold exactly the stages
\* that pass computed.
C16_AccessorsShowComputedStages ==
    (pc \notin {"new", "noobject"}) =>
       /\ RowsOfStages(K, _K, Kept(_K))
       /\ RowsOfStages(L, _L, Kept(_L))
       /\ (pc = "idle" /\ ncalls = 0) => (K = << >> /\ L = << >>)
       /\ (PassFailed /\ ncalls = 1) =>
             IF ret.op = "solve_reachable_sets"
             THEN /\ K = << >>
                  /\ RowsOfStages(L, _L, Computed("proj_x_admissible"))
             ELSE /\ L = << >>
                  /\ RowsOfStages(K, _K, Computed("proj_x_admissible")
                                         \cup Computed("one_step"))
\* the first pass on a solver failed after it had computed some but not all
\* of its stages
C16_Witness ==
    /\ PassFailed /\ ncalls = 1 /\ ret.op = "solve_controllable_sets"
    /\ Len(K) >= 1 /\ Len(K) < N + 1

\* C17: for every output of solve_topp without nan, the time grid of
\* compute_trajectory_gridpoints starts at 0, is strictly increasing and has
\* t[i+1] - t[i] = 2 * Ds[i] / (sd[i] + sd[i+1]) with sd = sqrt(x), also
\* when two consecutive x are 0.
C17_TimeGridIncreasing ==
    (ret.op = "compute_trajectory_gridpoints"
     /\ \A i \in 0..N : ret.xgrid[i] # NaN) =>
       LET t == ret.value
           sd == SdGrid(ret.xgrid)
       IN  /\ t[0] = 0
           /\ \A i \in 0..(N - 1) :
                 /\ FLess(t[i], t[i + 1])
                 /\ FEq(FSub(t[i + 1], t[i]),
                        FTwice(FDivStep(Ds[i], FAdd(sd[i], sd[i + 1]))))
\* the same for outputs in which no two consecutive x are both 0
C17_TimeGridIncreasingAwayFromRest ==
    (ret.op = "compute_trajectory_gridpoints"
     /\ (\A i \in 0..N : ret.xgrid[i] # NaN)
     /\ (\A k \in 0..(N - 1) : ret.xgrid[k] # 0 \/ ret.xgrid[k + 1] # 0)) =>
       LET t == ret.value
           sd == SdGrid(ret.xgrid)
       IN  /\ t[0] = 0
           /\ \A i \in 0..(N - 1) :
                 /\ FLess(t[i], t[i + 1])
                 /\ FEq(FSub(t[i + 1], t[i]),
                        FTwice(FDivStep(Ds[i], FAdd(sd[i], sd[i + 1]))))

\* C18: with smooth=True the returned samples of a joint satisfy
\* q[k+1] = q[k] + qd[k] * dt + qdd[k] * dt^2 / 2 and
\* qd[k+1] = qd[k] + qdd[k] * dt for every k, the first and the last pair
\* (q, qd) are those of the unsmoothed trajectory, and the last qdd repeats
\* the one before it.
C18_SmoothedFollowsTransition ==
    (pc = "smooth_done") =>
       LET k == frame.args
           o == ret.value
       IN  /\ \A j \in 0..(k.M - 1) :
                 /\ o.q[j + 1] = o.q[j] + o.qd[j] * k.dt
                                 + o.qdd[j] * ((k.dt * k.dt) \div 2)
                 /\ o.qd[j + 1] = o.qd[j] + o.qdd[j] * k.dt
           /\ o.q[0] = k.q[0] /\ o.qd[0] = k.qd[0]
           /\ o.q[k.M] = k.q[k.M] /\ o.qd[k.M] = k.qd[k.M]
           /\ o.qdd[k.M] = o.qdd[k.M - 1]
\* a trajectory of MaxM + 1 samples that did not follow the transition was
\* smoothed into a different one
C18_Witness ==
    /\ pc = "smooth_done"
    /\ frame.args.M = MaxM
    /\ ret.value.q # frame.args.q
    /\ ret.value.qdd[0] # ret.value.qdd[1]

\* the slack block of Hs is gain times the identity and the rest is zero
RegularizedOnce(Hs, gain) ==
    \A p \in DOMAIN Hs : \A q \in DOMAIN Hs[p] :
       Hs[p][q] = IF p >= 2 /\ p = q THEN gain ELSE 0

\* C19: at every greedy_step solve of solve_topp with nv > 0 (the warm start
\* and each stage call) the Hessian handed to the QP is reg * I on the slack
\* block H[2:, 2:] and zero elsewhere, however many greedy steps were taken
\* before.
C19_HessianIsRegIdentity ==
    (nv > 0) =>
       \A k \in Logged("greedy_step") :
          RegularizedOnce(primlog[k].H, primlog[k].reg)
\* the same for the first greedy_step solve of a call, the warm start
C19_HessianAtWarmStart ==
    (nv > 0) =>
       \A k \in Logged("greedy_step") :
          primlog[k].init => RegularizedOnce(primlog[k].H, primlog[k].reg)

\* C20: every init or hotstart call of a pass is handed a budget of 1000
\* working-set recalculations, the solver writing the number it performed
\* into the budget argument; so are both greedy_step calls at stage 0.
C20_BudgetAlways1000 ==
    \A k \in 1..Len(primlog) :
       /\ primlog[k].nWSR_up = nWSR_cnst
       /\ primlog[k].prim # "greedy_step" => primlog[k].nWSR_down = nWSR_cnst
\* the same for the calls of one_step, reach and proj_x_admissible, and for
\* the first greedy_step call at each stage >= 1
C20_BudgetOutsideStage0 ==
    \A k \in 1..Len(primlog) :
       (primlog[k].prim # "greedy_step" \/ primlog[k].i > 0
        \/ primlog[k].init) =>
          /\ primlog[k].nWSR_up = nWSR_cnst
          /\ primlog[k].prim # "greedy_step"
                => primlog[k].nWSR_down = nWSR_cnst

\* the call of the user that is running, or the last one that ended
CurrentCall == IF pc = "idle" THEN ret.op ELSE frame.op

\* C21: within every pass reset_operational_rows is called between any two
\* consecutive primitive invocations of different kinds, so that no
\* primitive populates operational rows after a primitive of another kind
\* without a reset in between.
C21_ResetBetweenKinds ==
    \A k \in 2..Len(primlog) :
       primlog[k].prim # primlog[k - 1].prim => primlog[k].reset
\* the resets the passes do make: the first primitive of a call, and the
\* first greedy_step of solve_topp, come right after a reset
C21_ResetAtPassStart ==
    \A k \in 1..Len(primlog) :
       (k = 1 \/ (primlog[k].prim = "greedy_step"
                  /\ primlog[k - 1].prim # "greedy_step"))
          => primlog[k].reset

\* the entries of primlog written by the backward pass
BackwardLogged == Logged("proj_x_admissible") \cup Logged("one_step")

\* C22: in solve_controllable_sets the projection at stage N and the first
\* one_step (stage N-1) are cold starts, every later one_step is a hotstart,
\* the stages are visited in strictly decreasing order, and each successful
\* stage i stores K_i.high = (one-step maximum) - eps and
\* K_i.low = max(one-step minimum, 0).
C22_BackwardOrderAndStarts ==
    (CurrentCall \in {"solve_controllable_sets", "solve_topp"}) =>
       /\ BackwardLogged = 1..Cardinality(BackwardLogged)
       /\ Cardinality(BackwardLogged) <= N + 1
       /\ \A k \in BackwardLogged :
             /\ primlog[k].i = N - (k - 1)
             /\ primlog[k].prim = IF k = 1 THEN "proj_x_admissible"
                                  ELSE "one_step"
             /\ primlog[k].init = (k <= 2)
             /\ (k >= 2 /\ primlog[k].out = "ok") =>
                   /\ _K[primlog[k].i][1] = primlog[k].value.hi - EPS
                   /\ _K[primlog[k].i][0] = Max(primlog[k].value.lo, 0)
\* a backward pass went through all stages of the longest grid, the last of
\* them by hotstart
C22_Witness ==
    /\ pc = "idle" /\ ret.op = "solve_controllable_sets"
    /\ ret.kind = "return" /\ ret.value = TRUE
    /\ N = MaxN /\ Len(primlog) = N + 1
    /\ ~primlog[N + 1].init /\ primlog[N + 1].i = 0

\* C23: in solve_reachable_sets L_0 is the projection of I0 at stage 0 with
\* a cold start, and for i = 0..N-1 in increasing order
\* L_{i+1} = proj_x_admissible(i+1, reach(i, L_i)), reach(i) and the
\* projection after it being cold starts exactly when i <= 1.
C23_ForwardOrderAndStarts ==
    (CurrentCall = "solve_reachable_sets") =>
       /\ Len(primlog) <= 2 * N + 1
       /\ \A k \in 1..Len(primlog) :
             LET e == primlog[k]
                 i == (k - 2) \div 2
             IN  IF k = 1
                 THEN /\ e.prim = "proj_x_admissible" /\ e.i = 0 /\ e.init
                      /\ e.lA[0] = I0[0] /\ e.hA[0] = I0[1]
                      /\ e.out = "ok" =>
                            _L[0] = Pair(e.value.lo, e.value.hi)
                 ELSE IF k % 2 = 0
                 THEN /\ e.prim = "reach" /\ e.i = i
                      /\ e.init = (i <= 1)
                      /\ e.lA[0] = _L[i][0] /\ e.hA[0] = _L[i][1]
                 ELSE /\ e.prim = "proj_x_admissible" /\ e.i = i + 1
                      /\ e.init = (i <= 1)
                      /\ e.lA[0] = primlog[k - 1].value.lo
                      /\ e.hA[0] = primlog[k - 1].value.hi
                      /\ e.out = "ok" =>
                            _L[i + 1] = Pair(e.value.lo, e.value.hi)
\* a forward pass went through all stages, the last of them by hotstart
C23_Witness ==
    /\ pc = "idle" /\ ret.op = "solve_reachable_sets"
    /\ ret.kind = "return" /\ ret.value = TRUE
    /\ N >= 3 /\ Len(primlog) = 2 * N + 1
    /\ ~primlog[2 * N].init /\ ~primlog[2 * N + 1].init

\* the entries of primlog in which instance inst was called
CallsOf(inst) == {k \in 1..Len(primlog) : inst \in primlog[k].solvers}
\* solve_topp returned (us, xs)
ToppReturned == pc = "idle" /\ ret.op = "solve_topp" /\ ret.kind = "return"

\* C24: a solve_topp that returns on a grid with N segments has issued
\* exactly 3(N+1) QP solves, N+1 on each instance in the backward pass and
\* N+1 greedy solves (a warm start and N steps) on solver_up only, and a
\* started solve_topp terminates.
C24_SolveCountAndTermination ==
    /\ [](ToppReturned =>
            /\ Cardinality(CallsOf("up")) + Cardinality(CallsOf("down"))
                  = 3 * (N + 1)
            /\ Cardinality(CallsOf("up") \cap BackwardLogged) = N + 1
            /\ Cardinality(CallsOf("down") \cap BackwardLogged) = N + 1
            /\ Cardinality(Logged("greedy_step")) = N + 1
            /\ Logged("greedy_step") \cap CallsOf("down") = {}
            /\ Logged("greedy_step") \subseteq CallsOf("up")
            /\ \A k \in Logged("greedy_step") :
                  primlog[k].init = (k = N + 2))
    /\ [][(pc \in {"T_check", "T_warm", "T_step"})
              => (solver_down' = solver_down)]_vars
    /\ ((pc \in Running) ~> (pc = "idle"))
\* solve_topp returned on the longest grid
C24_Witness == ToppReturned /\ N = MaxN

\* the positions of the backward pass and of the forward pass
InBackward == pc \in {"K_proj", "K_step"}
InForward == pc \in {"L_proj0", "L_reach", "L_proj"}
\* the backward pass ended with a failure, on its own or inside solve_topp
BackwardFailed ==
    \/ PassFailed
    \/ pc = "T_check" /\ frame.controllable = FALSE
\* the row the next step of the pass may assign
BackwardStage == IF pc = "K_proj" THEN N ELSE frame.i
ForwardStage == IF pc = "L_proj0" THEN 0 ELSE frame.i + 1

\* C25: a pass never resets K or L.  The backward pass leaves L alone and
\* assigns at most the K row of the stage it is at, stages going down, and
\* nothing when that stage fails, so the rows of stages 0..j are as before
\* the call when it fails at stage j; the forward pass leaves K alone and
\* assigns at most the L row it is computing, rows going up, and nothing when
\* the computation fails, so the rows j+1..N are unchanged.
C25_PassesKeepOtherRows ==
    [][/\ InBackward =>
            /\ _L' = _L
            /\ \A k \in 0..N : k # BackwardStage => _K'[k] = _K[k]
            /\ BackwardFailed' => _K' = _K
            /\ pc' = "K_step" => frame'.i = BackwardStage - 1
       /\ InForward =>
            /\ _K' = _K
            /\ \A k \in 0..N : k # ForwardStage => _L'[k] = _L[k]
            /\ (pc = "L_reach" \/ PassFailed') => _L' = _L
            /\ pc' = "L_reach" => frame'.i = ForwardStage
            /\ pc' = "L_proj" => frame'.i = frame.i
       /\ pc \in {"T_check", "T_warm", "T_step"} =>
            _K' = _K /\ _L' = _L]_vars
\* A backward pass failed below stage N on an object whose earlier pass had
\* computed every row: the rows of the failing stage and below are the old
\* ones.
C25_Witness ==
    /\ PassFailed /\ ret.op = "solve_controllable_sets" /\ ncalls = 2
    /\ Len(primlog) >= 2
    /\ \A k \in 0..primlog[Len(primlog)].i : _K[k] # Pair(-ONE, -ONE)
\* A forward pass failed after its first row on an object whose earlier pass
\* had computed every row.
C25_WitnessForward ==
    /\ PassFailed /\ ret.op = "solve_reachable_sets" /\ ncalls = 2
    /\ Len(primlog) >= 2
    /\ \A k \in 0..N : _L[k] # Pair(-ONE, -ONE)

\* the samples taken so far by compute_trajectory_points, and its time grid
SamplesTaken ==
    IF pc = "sample_loop" THEN frame.samples
    ELSE IF pc = "sample_done" /\ ret.kind = "return" THEN ret.value
    ELSE << >>
SampleTGrid == IF pc = "sample_loop" THEN frame.tgrid ELSE ret.tgrid
SampleN == IF pc = "sample_loop" THEN frame.N ELSE ret.N
\* index, order and control of the samples, without the interval of t
SampleIndexSound ==
    \A k \in 1..Len(SamplesTaken) :
       LET smp == SamplesTaken[k]
       IN  /\ smp.igrid \in 0..(SampleN - 1)
           /\ k > 1 => SamplesTaken[k - 1].igrid <= smp.igrid
           /\ smp.usample = frame.args.ugrid[smp.igrid]

\* C26 as stated: every sample t uses a segment i with t_i <= t < t_{i+1},
\* the index never decreases nor exceeds N-1, and the control is u_i.
C26_SampleInHalfOpenSegment ==
    /\ SampleIndexSound
    /\ \A k \in 1..Len(SamplesTaken) :
          LET smp == SamplesTaken[k]
          IN  /\ SampleTGrid[smp.igrid] <= smp.t
              /\ smp.t < SampleTGrid[smp.igrid + 1]
\* C26 as the loop computes it: every sample t uses the first segment i with
\* t <= t_{i+1}, so that t_i < t <= t_{i+1} (t_0 <= t <= t_1 for i = 0); the
\* index never decreases nor exceeds N-1, and the control is u_i.
C26_SampleInSegmentClosedRight ==
    /\ SampleIndexSound
    /\ \A k \in 1..Len(SamplesTaken) :
          LET smp == SamplesTaken[k]
          IN  /\ smp.t <= SampleTGrid[smp.igrid + 1]
              /\ smp.igrid > 0 => SampleTGrid[smp.igrid] < smp.t
              /\ smp.igrid = 0 => SampleTGrid[0] <= smp.t
\* a sample falling exactly on an inner grid time was taken
C26_Witness ==
    \E k \in 1..Len(SamplesTaken) :
       /\ SamplesTaken[k].t = SampleTGrid[SamplesTaken[k].igrid + 1]
       /\ SamplesTaken[k].igrid + 1 < SampleN

\* lo <= val <= hi for floats
FWithin(val, lo, hi) == val # NaN /\ lo <= val /\ val <= hi

\* C27: every x_i returned by solve_topp lies in K_i and is >= 0, and x_0
\* lies in I0.
C27_ReturnedInControllable ==
    ToppReturned =>
       /\ \A i \in 0..N :
             /\ FWithin(ret.value.xs[i], _K[i][0], _K[i][1])
             /\ FWithin(ret.value.xs[i], 0, Inf)
       /\ FWithin(ret.value.xs[0], I0[0], I0[1])
\* C27 for the calls in which every greedy step succeeded
C27_ReturnedInControllableNoFailure ==
    (ToppReturned /\ \A k \in 1..Len(primlog) : primlog[k].out = "ok") =>
       /\ \A i \in 0..N :
             /\ FWithin(ret.value.xs[i], _K[i][0], _K[i][1])
             /\ FWithin(ret.value.xs[i], 0, Inf)
       /\ FWithin(ret.value.xs[0], I0[0], I0[1])

\* the object exists
Built == pc \notin {"new", "noobject"}
\* the rows of index >= nop of A, lA and hA
ConstraintRows ==
    [i \in DOMAIN A |-> [r \in {x \in DOMAIN A[i] : x >= nop} |->
        <<A[i][r], lA[i][r], hA[i][r]>>]]
\* the same rows as the constructor fills them from the constraints
AssembledRows ==
    [i \in 0..N |-> [r \in nop..(nC_(constraint_set) - 1) |->
        << [col \in 0..(nV_(constraint_set) - 1) |->
               FillA(constraint_set, i, r, col)],
           FilllA(constraint_set, i, r), FillhA(constraint_set, i, r) >>]]
AssembledBounds ==
    [i \in 0..N |-> [col \in 0..(nV_(constraint_set) - 1) |->
        <<Filll(constraint_set, i, col), Fillh(constraint_set, i, col)>>]]
\* operational rows, H and g are all zero
OperationalZero ==
    /\ \A i \in DOMAIN A : \A r \in DOMAIN A[i] :
          r < nop => /\ \A col \in DOMAIN A[i][r] : A[i][r][col] = 0
                     /\ lA[i][r] = 0 /\ hA[i][r] = 0
    /\ \A p \in DOMAIN H : \A q \in DOMAIN H[p] : H[p][q] = 0
    /\ \A p \in DOMAIN g : g[p] = 0

\* C28: after construction the passes and reset_operational_rows leave the
\* rows of index >= nop of A, lA, hA and the bounds l, h as assembled from
\* the constraints, leave the constraints themselves alone, and every pass
\* starts with the operational rows, H and g at zero.
C28_OnlyOperationalRowsChange ==
    /\ [](Built => /\ ConstraintRows = AssembledRows
                   /\ [i \in DOMAIN l |-> [col \in DOMAIN l[i] |->
                          <<l[i][col], h[i][col]>>]] = AssembledBounds)
    /\ [][/\ constraint_set' = constraint_set
          /\ (pc = "idle" /\ pc' \in {"K_proj", "L_proj0"})
                => OperationalZero']_vars
\* A second call has ended on an object with constraint rows, the
\* operational rows holding what the call wrote.
C28_Witness ==
    /\ pc = "idle" /\ ncalls = 2 /\ ret.op \in Passes
    /\ ~OperationalZero
    /\ \E i \in DOMAIN A : \E r \in DOMAIN A[i] :
          r >= nop /\ hA[i][r] # 0
\* reset_operational_rows was called after a pass had written its rows
C28_WitnessReset ==
    /\ pc = "idle" /\ ncalls = 2 /\ ret.op = "reset_operational_rows"
    /\ OperationalZero /\ primlog # << >>

\* the status instance inst answered in entry k of primlog
StatusOf(k, inst) ==
    IF inst = "up" THEN primlog[k].res_up ELSE primlog[k].res_down
\* the cold starts of inst logged before entry k
ColdBefore(k, inst) ==
    {j \in 1..(k - 1) : primlog[j].init /\ inst \in primlog[j].solvers}
\* entry k hotstarts inst after a cold start of inst, the last of which
\* succeeded
HotstartPrepared(k, inst) ==
    /\ ColdBefore(k, inst) # {}
    /\ StatusOf(SetMax(ColdBefore(k, inst)), inst) = SUCCESSFUL_RETURN

\* C29: within a call, every hotstart of solver_up or solver_down comes after
\* a cold start of the same instance, and the last cold start before it
\* returned SUCCESSFUL_RETURN.
C29_HotstartAfterSuccessfulInit ==
    \A k \in 1..Len(primlog) :
       ~primlog[k].init =>
          \A inst \in primlog[k].solvers : HotstartPrepared(k, inst)
\* C29 for the backward and forward passes alone
C29_HotstartAfterSuccessfulInitInSets ==
    \A k \in 1..Len(primlog) :
       (~primlog[k].init /\ primlog[k].prim # "greedy_step") =>
          \A inst \in primlog[k].solvers : HotstartPrepared(k, inst)
====
